---- MODULE Spec2Model ----
(***************************************************************************)
(* Model of the Ethereum validator API: the service of                     *)
(* service/ethereumService.go (GetBlockRewardBySlot, GetSyncDutiesBySlot   *)
(* and their helpers) and the two gin handlers that serve it.              *)
(*                                                                         *)
(* Strings are TLA+ strings, taken apart with Len and SubSeq.  Values of   *)
(* Go's math/big.Int and int64 are arbitrary-precision integers kept as    *)
(* a sign and a little-endian sequence of base-1000 limbs, because the     *)
(* program's constants (10^9, 10^10) and its inputs do not fit the         *)
(* checker's machine integers.  A JSON value is a tagged record            *)
(* [t |-> "str" | "num" | "arr" | "obj" | "null", v |-> ...].              *)
(***************************************************************************)
EXTENDS Integers, Sequences, FiniteSets, TLC

(***************************************************************************)
(* Strings (package strings)                                               *)
(***************************************************************************)
CharAt(s, i) == SubSeq(s, i, i)

Contains(s, sub) ==
    \E i \in 1..(Len(s) - Len(sub) + 1) : SubSeq(s, i, i + Len(sub) - 1) = sub

HasPrefix(s, p) == Len(s) >= Len(p) /\ SubSeq(s, 1, Len(p)) = p

TrimPrefix(s, p) == IF HasPrefix(s, p) THEN SubSeq(s, Len(p) + 1, Len(s)) ELSE s

UpperChars == "ABCDEFGHIJKLMNOPQRSTUVWXYZ"

LowerChars == "abcdefghijklmnopqrstuvwxyz"

LowerChar(c) ==
    IF \E i \in 1..26 : CharAt(UpperChars, i) = c
    THEN CharAt(LowerChars, CHOOSE i \in 1..26 : CharAt(UpperChars, i) = c)
    ELSE c

RECURSIVE ToLower(_)
ToLower(s) ==
    IF Len(s) = 0 THEN ""
    ELSE LowerChar(CharAt(s, 1)) \o ToLower(SubSeq(s, 2, Len(s)))

DigitChars == "0123456789abcdefghijklmnopqrstuvwxyz"

\* value of a digit character, 99 for a character that is no digit
DigitVal(c) ==
    LET lc == LowerChar(c)
    IN  IF \E i \in 1..36 : CharAt(DigitChars, i) = lc
        THEN (CHOOSE i \in 1..36 : CharAt(DigitChars, i) = lc) - 1
        ELSE 99

(***************************************************************************)
(* Arbitrary-precision integers (math/big.Int; also used for int64 values  *)
(* where no wrap-around occurs)                                            *)
(***************************************************************************)
LimbBase == 1000

RECURSIVE MagNorm(_)
MagNorm(m) ==
    IF m = <<>> THEN <<>>
    ELSE IF m[Len(m)] = 0 THEN MagNorm(SubSeq(m, 1, Len(m) - 1))
    ELSE m

MagHead(m) == IF m = <<>> THEN 0 ELSE Head(m)

MagTail(m) == IF m = <<>> THEN <<>> ELSE Tail(m)

RECURSIVE MagAdd(_, _, _)
MagAdd(a, b, c) ==
    IF a = <<>> /\ b = <<>> THEN (IF c = 0 THEN <<>> ELSE <<c>>)
    ELSE LET s == MagHead(a) + MagHead(b) + c
         IN  <<s % LimbBase>> \o MagAdd(MagTail(a), MagTail(b), s \div LimbBase)

\* a - b - c for magnitudes with a >= b + c
RECURSIVE MagSubRaw(_, _, _)
MagSubRaw(a, b, c) ==
    IF a = <<>> THEN <<>>
    ELSE LET d == MagHead(a) - MagHead(b) - c
         IN  IF d < 0
             THEN <<d + LimbBase>> \o MagSubRaw(MagTail(a), MagTail(b), 1)
             ELSE <<d>> \o MagSubRaw(MagTail(a), MagTail(b), 0)

MagSub(a, b) == MagNorm(MagSubRaw(a, b, 0))

\* -1, 0, 1 as a is below, equal to, above b (both normalised)
RECURSIVE MagCmp(_, _)
MagCmp(a, b) ==
    IF Len(a) # Len(b) THEN (IF Len(a) < Len(b) THEN -1 ELSE 1)
    ELSE IF a = <<>> THEN 0
    ELSE IF a[Len(a)] # b[Len(b)] THEN (IF a[Len(a)] < b[Len(b)] THEN -1 ELSE 1)
    ELSE MagCmp(SubSeq(a, 1, Len(a) - 1), SubSeq(b, 1, Len(b) - 1))

\* a * k + c for a small factor k
RECURSIVE MagMulSmallRaw(_, _, _)
MagMulSmallRaw(a, k, c) ==
    IF a = <<>> THEN (IF c = 0 THEN <<>> ELSE <<c % LimbBase>> \o MagMulSmallRaw(<<>>, k, c \div LimbBase))
    ELSE LET p == Head(a) * k + c
         IN  <<p % LimbBase>> \o MagMulSmallRaw(Tail(a), k, p \div LimbBase)

MagMulSmall(a, k) == MagNorm(MagMulSmallRaw(a, k, 0))

RECURSIVE MagMulRaw(_, _)
MagMulRaw(a, b) ==
    IF b = <<>> \/ a = <<>> THEN <<>>
    ELSE LET low  == MagMulSmallRaw(a, Head(b), 0)
             high == <<0>> \o MagMulRaw(a, Tail(b))
         IN  IF Len(low) + Len(high) >= 0 THEN MagAdd(low, high, 0) ELSE <<>>

MagMul(a, b) == MagNorm(MagMulRaw(a, b))

\* quotient and remainder of a by a small divisor d, most significant limb first
RECURSIVE MagDivSmallRaw(_, _, _)
MagDivSmallRaw(a, d, r) ==
    IF a = <<>> THEN [q |-> <<>>, r |-> r]
    ELSE LET cur  == r * LimbBase + a[Len(a)]
             rest == MagDivSmallRaw(SubSeq(a, 1, Len(a) - 1), d, cur % d)
         IN  [q |-> rest.q \o <<cur \div d>>, r |-> rest.r]

MagDivSmall(a, d) == MagNorm(MagDivSmallRaw(a, d, 0).q)

MagModSmall(a, d) == MagDivSmallRaw(a, d, 0).r

MkBig(neg, mag) == [neg |-> neg /\ mag # <<>>, mag |-> mag]

BigZero == MkBig(FALSE, <<>>)

RECURSIVE MagFromNat(_)
MagFromNat(n) == IF n = 0 THEN <<>> ELSE <<n % LimbBase>> \o MagFromNat(n \div LimbBase)

\* big.NewInt(n) for a machine-sized n
BigFromInt(n) == IF n < 0 THEN MkBig(TRUE, MagFromNat(-n)) ELSE MkBig(FALSE, MagFromNat(n))

BigSign(x) == IF x.mag = <<>> THEN 0 ELSE IF x.neg THEN -1 ELSE 1

BigNeg(x) == MkBig(~x.neg, x.mag)

BigCmp(x, y) ==
    IF x.neg # y.neg THEN (IF x.neg THEN -1 ELSE 1)
    ELSE IF x.neg THEN MagCmp(y.mag, x.mag) ELSE MagCmp(x.mag, y.mag)

BigAdd(x, y) ==
    IF x.neg = y.neg THEN MkBig(x.neg, MagAdd(x.mag, y.mag, 0))
    ELSE IF MagCmp(x.mag, y.mag) >= 0 THEN MkBig(x.neg, MagSub(x.mag, y.mag))
    ELSE MkBig(y.neg, MagSub(y.mag, x.mag))

BigSub(x, y) == BigAdd(x, BigNeg(y))

BigMul(x, y) == MkBig(x.neg # y.neg, MagMul(x.mag, y.mag))

\* Go's / on integers: the quotient truncated toward zero, small divisor d > 0
BigQuoSmall(x, d) == MkBig(x.neg, MagDivSmall(x.mag, d))

\* Go's % on integers: the remainder has the sign of the dividend
BigRemSmall(x, d) == IF x.neg THEN -MagModSmall(x.mag, d) ELSE MagModSmall(x.mag, d)

\* (*big.Int).SetString(s, base): optional sign, then at least one digit of the
\* base, nothing else; ok is false otherwise
\* (each step's value is computed before the next step is entered)
RECURSIVE MagParse(_, _, _)
MagParse(s, base, acc) ==
    IF Len(s) = 0 THEN acc
    ELSE LET nxt == MagNorm(MagAdd(MagMulSmall(acc, base), MagFromNat(DigitVal(CharAt(s, 1))), 0))
         IN  IF Len(nxt) >= 0 THEN MagParse(SubSeq(s, 2, Len(s)), base, nxt) ELSE <<>>

SetString(s, base) ==
    LET signed == HasPrefix(s, "-") \/ HasPrefix(s, "+")
        body   == IF signed THEN SubSeq(s, 2, Len(s)) ELSE s
        ok     == Len(body) > 0 /\ \A i \in 1..Len(body) : DigitVal(CharAt(body, i)) < base
    IN  [ok |-> ok,
         v  |-> IF ok THEN MkBig(HasPrefix(s, "-"), MagParse(body, base, <<>>)) ELSE BigZero]

RECURSIVE MagFormat(_, _)
MagFormat(m, base) ==
    IF m = <<>> THEN ""
    ELSE LET d == MagDivSmallRaw(m, base, 0)
             q == MagNorm(d.q)
         IN  IF Len(q) >= 0 THEN MagFormat(q, base) \o CharAt(DigitChars, d.r + 1) ELSE ""

\* fmt's %d (base 10) and %x (base 16) of an integer
FormatInt(x, base) ==
    IF x.mag = <<>> THEN "0"
    ELSE (IF x.neg THEN "-" ELSE "") \o MagFormat(x.mag, base)

MaxInt64 == SetString("9223372036854775807", 10).v

MinInt64 == SetString("-9223372036854775808", 10).v

\* the range check of strconv.ParseInt for bitSize 64
InInt64Range(p) ==
    IF p.ok /\ BigCmp(p.v, MaxInt64) <= 0 /\ BigCmp(p.v, MinInt64) >= 0
    THEN [ok |-> TRUE, v |-> p.v]
    ELSE [ok |-> FALSE, v |-> BigZero]

\* strconv.ParseInt(s, 10, 64)
ParseInt(s) == InInt64Range(SetString(s, 10))

(***************************************************************************)
(* Errors: the text of Error() and the sentinels errors.Is finds in the    *)
(* chain built by %w                                                       *)
(***************************************************************************)
NilError == [nil |-> TRUE, msg |-> "", chain |-> {}]

NewError(text) == [nil |-> FALSE, msg |-> text, chain |-> {}]

Sentinel(name, text) == [nil |-> FALSE, msg |-> text, chain |-> {name}]

ErrFutureSlot == Sentinel("ErrFutureSlot", "requested slot is in the future")

ErrSlotNotFound == Sentinel("ErrSlotNotFound", "slot does not exist")

ErrInvalidRPC == Sentinel("ErrInvalidRPC", "invalid RPC endpoint")

ErrRPCFailed == Sentinel("ErrRPCFailed", "RPC request failed")

\* fmt.Errorf with %v in the place of %w: the text alone, no chain
WrapAsText(text, err) == [nil |-> FALSE, msg |-> text, chain |-> {}]

\* fmt.Errorf with one %w verb: the text is formatted, the chain is kept
Wrap(text, err) == [nil |-> FALSE, msg |-> text, chain |-> err.chain]

ErrorsIs(err, target) == ~err.nil /\ target.chain \subseteq err.chain

(***************************************************************************)
(* JSON values and their decoding (encoding/json)                          *)
(***************************************************************************)
JNull == [t |-> "null", v |-> 0]

JStr(s) == [t |-> "str", v |-> s]

JNum(n) == [t |-> "num", v |-> n]

JBool(b) == [t |-> "bool", v |-> b]

JArr(a) == [t |-> "arr", v |-> a]

JObj(o) == [t |-> "obj", v |-> o]

HasKey(o, k) == o.t = "obj" /\ k \in DOMAIN o.v

\* the member k of an object, null when o is no object or has no such member
Field(o, k) == IF HasKey(o, k) THEN o.v[k] ELSE JNull

RECURSIVE Path(_, _)
Path(o, keys) == IF keys = <<>> THEN o ELSE Path(Field(o, Head(keys)), Tail(keys))

\* obj[k].(string) of a map[string]interface{}
AsString(o, k) ==
    IF HasKey(o, k) /\ o.v[k].t = "str" THEN [ok |-> TRUE, v |-> o.v[k].v]
    ELSE [ok |-> FALSE, v |-> ""]

\* obj[k].([]interface{})
AsArray(o, k) ==
    IF HasKey(o, k) /\ o.v[k].t = "arr" THEN [ok |-> TRUE, v |-> o.v[k].v]
    ELSE [ok |-> FALSE, v |-> <<>>]

\* the wire text of a JSON value
RECURSIVE Render(_)
RECURSIVE RenderSeq(_)
RECURSIVE RenderFields(_, _)
RenderSeq(a) ==
    IF a = <<>> THEN ""
    ELSE Render(Head(a)) \o (IF Len(a) > 1 THEN "," ELSE "") \o RenderSeq(Tail(a))

RenderFields(o, keys) ==
    IF keys = {} THEN ""
    ELSE LET k == CHOOSE x \in keys : TRUE
         IN  "\"" \o k \o "\":" \o Render(o[k])
             \o (IF keys = {k} THEN "" ELSE ",") \o RenderFields(o, keys \ {k})

Render(j) ==
    CASE j.t = "null" -> "null"
      [] j.t = "str"  -> "\"" \o j.v \o "\""
      [] j.t = "num"  -> FormatInt(BigFromInt(j.v), 10)
      [] j.t = "bool" -> IF j.v THEN "true" ELSE "false"
      [] j.t = "arr"  -> "[" \o RenderSeq(j.v) \o "]"
      [] j.t = "obj"  -> "{" \o RenderFields(j.v, DOMAIN j.v) \o "}"

(***************************************************************************)
(* Upstream responses.  A response is either a transport failure of        *)
(* client.Do or a body; a body is raw text that is no JSON, or a JSON      *)
(* value whose wire text is Render of it.                                  *)
(***************************************************************************)
TransportFail(text) == [kind |-> "fail", text |-> text, json |-> JNull]

RawBody(text) == [kind |-> "raw", text |-> text, json |-> JNull]

JsonBody(j) == [kind |-> "json", text |-> "", json |-> j]

BodyText(resp) == IF resp.kind = "json" THEN Render(resp.json) ELSE resp.text

\* no body is taken for a rate-limit rejection
RateLimitIgnored(resp) == FALSE

\* strings.Contains(string(respBody), "request limit reached")
IsRateLimited(resp) == resp.kind # "fail" /\ Contains(BodyText(resp), "request limit reached")

\* decoding into struct { Result map[string]interface{}; Error *struct{Code int; Message string} }
DecodedRPC(ok, result, e) ==
    [ok      |-> ok,
     hasRes  |-> ok /\ result.t = "obj",
     result  |-> IF ok /\ result.t = "obj" THEN result ELSE JObj(<<>>),
     hasErr  |-> ok /\ e.t = "obj",
     code    |-> IF ok /\ e.t = "obj" /\ Field(e, "code").t = "num" THEN Field(e, "code").v ELSE 0,
     message |-> IF ok /\ e.t = "obj" THEN AsString(e, "message").v ELSE ""]

RPCFieldsDecode(result, e) ==
    /\ result.t \in {"obj", "null"}
    /\ e.t \in {"obj", "null"}
    /\ Field(e, "code").t \in {"num", "null"}
    /\ Field(e, "message").t \in {"str", "null"}

RPCFields(resp, result, e) ==
    DecodedRPC(resp.kind = "json" /\ resp.json.t = "obj" /\ RPCFieldsDecode(result, e), result, e)

DecodeRPC(resp) == RPCFields(resp, Field(resp.json, "result"), Field(resp.json, "error"))

(***************************************************************************)
(* int64 conversion                                                        *)
(***************************************************************************)
Two63 == SetString("9223372036854775808", 10).v

Two64 == SetString("18446744073709551616", 10).v

\* the n lowest base-65536 digits of a magnitude, lowest first
RECURSIVE MagLowDigits(_, _)
MagLowDigits(m, n) ==
    IF n = 0 THEN <<>>
    ELSE <<MagModSmall(m, 65536)>> \o MagLowDigits(MagDivSmall(m, 65536), n - 1)

\* the magnitude of base-65536 digits, lowest first
RECURSIVE MagFromDigits(_)
MagFromDigits(ds) ==
    IF ds = <<>> THEN <<>>
    ELSE MagNorm(MagAdd(MagMulSmall(MagFromDigits(Tail(ds)), 65536), MagFromNat(Head(ds)), 0))

\* the low 64 bits of a magnitude
MagLow64(m) == MagFromDigits(MagLowDigits(m, 4))

\* an unsigned 64-bit value read as a two's complement number
Signed64(u) == IF BigCmp(u, Two63) >= 0 THEN BigSub(u, Two64) ELSE u

\* the value modulo 2^64 of the number with sign neg and low 64 bits low
Unsigned64(neg, low) == IF neg /\ low # <<>> THEN BigSub(Two64, MkBig(FALSE, low)) ELSE MkBig(FALSE, low)

\* (*big.Int).Int64() and int64 arithmetic overflow: the value modulo 2^64,
\* read as a two's complement number
WrapInt64(x) == Signed64(Unsigned64(x.neg, MagLow64(x.mag)))

(***************************************************************************)
(* service: block reward                                                   *)
(***************************************************************************)
mevBuilderPrefixes == <<"flashbots", "builder0x69", "rsync-builder", "manifold", "eth-builder">>

MevTxThreshold == 20

SecondsPerSlot == 12

EmptyBlock ==
    [BlockHash |-> "", FeeRecipient |-> "", ExtraData |-> "", BlockNumber |-> "",
     Transactions |-> <<>>, BaseFeePerGas |-> ""]

\* currentSlot := time.Now().Unix() / 12
CurrentSlot(t) == BigQuoSmall(BigFromInt(t), SecondsPerSlot)

\* isMEVBlock without its check of an empty extraData
isMEVBlockNoEmptyCheck(block) ==
    LET extraData == block.ExtraData
    IN  IF \E i \in 1..Len(mevBuilderPrefixes) :
               Contains(ToLower(extraData), mevBuilderPrefixes[i]) THEN TRUE
        ELSE IF Len(block.Transactions) > MevTxThreshold THEN TRUE
        ELSE FALSE

\* isMEVBlock with txCount >= 20 in the place of txCount > 20
isMEVBlockAtThreshold(block) ==
    LET extraData == block.ExtraData
    IN  IF Len(extraData) = 0 THEN FALSE
        ELSE IF \E i \in 1..Len(mevBuilderPrefixes) :
                    Contains(ToLower(extraData), mevBuilderPrefixes[i]) THEN TRUE
        ELSE IF Len(block.Transactions) >= MevTxThreshold THEN TRUE
        ELSE FALSE

isMEVBlock(block) ==
    LET extraData == block.ExtraData
    IN  IF Len(extraData) = 0 THEN FALSE
        ELSE IF \E i \in 1..Len(mevBuilderPrefixes) :
                    Contains(ToLower(extraData), mevBuilderPrefixes[i]) THEN TRUE
        ELSE IF Len(block.Transactions) > MevTxThreshold THEN TRUE
        ELSE FALSE

StatusOf(isMev) == IF isMev THEN "mev" ELSE "vanilla"

\* the transactions loop of getBeaconBlock: a string entry is taken as it is,
\* an object entry gives its "hash" string, any other entry is dropped
TxHashes(arr) ==
    LET usable(e) == e.t = "str" \/ (e.t = "obj" /\ AsString(e, "hash").ok)
        kept      == SelectSeq(arr, usable)
    IN  [i \in 1..Len(kept) |->
            IF kept[i].t = "str" THEN kept[i].v ELSE AsString(kept[i], "hash").v]

\* the field mapping with the block number taken for the block hash
BlockOfResultHashFromNumber(r) ==
    [BlockHash     |-> AsString(r, "number").v,
     FeeRecipient  |-> AsString(r, "miner").v,
     ExtraData     |-> AsString(r, "extraData").v,
     BlockNumber   |-> AsString(r, "number").v,
     Transactions  |-> TxHashes(AsArray(r, "transactions").v),
     BaseFeePerGas |-> AsString(r, "baseFeePerGas").v]

\* the field mapping of getBeaconBlock
BlockOfResult(r) ==
    [BlockHash     |-> AsString(r, "hash").v,
     FeeRecipient  |-> AsString(r, "miner").v,
     ExtraData     |-> AsString(r, "extraData").v,
     BlockNumber   |-> AsString(r, "number").v,
     Transactions  |-> TxHashes(AsArray(r, "transactions").v),
     BaseFeePerGas |-> AsString(r, "baseFeePerGas").v]

\* getBeaconBlock from the decoded response d on
BeaconBlockOf(d, slot) ==
    IF ~d.ok THEN
        [err |-> NewError("failed to decode response: invalid character"), block |-> EmptyBlock]
    ELSE IF d.hasErr /\ d.message = "Unknown block" THEN
        [err |-> NewError("no block data found for slot " \o FormatInt(slot, 10)),
         block |-> EmptyBlock]
    ELSE IF d.hasErr THEN
        [err |-> NewError("API error: " \o d.message \o " (code: "
                          \o FormatInt(BigFromInt(d.code), 10) \o ")"),
         block |-> EmptyBlock]
    ELSE IF ~d.hasRes THEN
        [err |-> NewError("no block data found for slot " \o FormatInt(slot, 10)),
         block |-> EmptyBlock]
    ELSE
        [err |-> NilError, block |-> BlockOfResult(d.result)]

DecodeBeaconBlock(resp, slot) == BeaconBlockOf(DecodeRPC(resp), slot)

\* the base fee of getExecutionBlockReward: 0 when absent, empty or unparsable
\* a string member of a transaction or block read as hex: present when it is
\* a non-empty string, parsed by SetString after TrimPrefix
HexOf(f) == [present |-> f.ok /\ f.v # "", parsed |-> SetString(TrimPrefix(f.v, "0x"), 16)]

HexField(o, k) == HexOf(AsString(o, k))

BaseFeeOrZero(f) == IF f.present /\ f.parsed.ok THEN f.parsed.v ELSE BigZero

BaseFeeOf(result) == BaseFeeOrZero(HexField(result, "baseFeePerGas"))

\* the product computed in 64-bit machine integers
TxProductInt64(priorityFee, gasUsed) == WrapInt64(BigMul(priorityFee, gasUsed))

\* txReward := new(big.Int).Mul(priorityFee, gasUsed)
TxProduct(priorityFee, gasUsed) == BigMul(priorityFee, gasUsed)

\* one round of the transaction loop of getExecutionBlockReward: the reward of
\* the transaction, counted false where the loop continues without adding
TxSkipped == [counted |-> FALSE, fee |-> BigZero, v |-> BigZero]

\* the gas of the transaction and the product, for a priority fee that parsed
TxWithFee(priorityFee, gas) ==
    IF gas.present /\ gas.parsed.ok
    THEN [counted |-> TRUE, fee |-> priorityFee, v |-> TxProduct(priorityFee, gas.parsed.v)]
    ELSE TxSkipped

\* gasPrice - baseFee of a legacy transaction, 0 when it is negative
LegacyFee(diff) == IF BigSign(diff) < 0 THEN BigZero ELSE diff

TxRewardOf(maxPrio, gasPrice, gas, baseFeePerGas) ==
    IF maxPrio.present THEN
        (IF maxPrio.parsed.ok THEN TxWithFee(maxPrio.parsed.v, gas) ELSE TxSkipped)
    ELSE IF gasPrice.present THEN
        (IF gasPrice.parsed.ok
         THEN TxWithFee(LegacyFee(BigSub(gasPrice.parsed.v, baseFeePerGas)), gas)
         ELSE TxSkipped)
    ELSE TxSkipped

TxReward(tx, baseFeePerGas) ==
    IF tx.t # "obj" THEN TxSkipped
    ELSE TxRewardOf(HexField(tx, "maxPriorityFeePerGas"), HexField(tx, "gasPrice"),
                    HexField(tx, "gas"), baseFeePerGas)

\* totalReward after the transaction loop
RECURSIVE SumTxRewards(_, _, _)
SumTxRewards(txs, baseFeePerGas, acc) ==
    IF txs = <<>> THEN acc
    ELSE LET nxt == BigAdd(acc, TxReward(Head(txs), baseFeePerGas).v)
         IN  IF Len(nxt.mag) >= 0 THEN SumTxRewards(Tail(txs), baseFeePerGas, nxt) ELSE BigZero

\* defaultReward of getExecutionBlockReward, "10000000000" wei
DefaultRewardWei == SetString("10000000000", 10).v

\* defaultReward of GetBlockRewardBySlot when the reward fetch failed, "10000000" wei
FallbackRewardWei == SetString("10000000", 10).v

\* big.NewInt(1000), returned in place of a zero GWEI reward
ZeroPlaceholderGwei == BigFromInt(1000)

\* new(big.Int).Div(x, big.NewInt(1e9)): Euclidean division by 10^9, which is
\* three limbs of base 1000
DivGwei(x) ==
    LET q == MkBig(FALSE, SubSeq(x.mag, 4, Len(x.mag)))
        exact == \A i \in 1..Len(x.mag) : i > 3 \/ x.mag[i] = 0
    IN  IF ~x.neg THEN q
        ELSE IF exact THEN BigNeg(q)
        ELSE BigNeg(BigAdd(q, BigFromInt(1)))

\* the total returned as it is, zero or negative included
RewardWithoutDefault(total) == total

\* the end of getExecutionBlockReward: the default in the place of a total
\* that is zero or negative
RewardOrDefault(total) == IF BigCmp(total, BigFromInt(0)) <= 0 THEN DefaultRewardWei ELSE total

\* getExecutionBlockReward from the decoding of the response on
RewardFailed(err) == [err |-> err, total |-> BigZero, reward |-> BigZero]

RewardOfTotal(total) == [err |-> NilError, total |-> total, reward |-> RewardOrDefault(total)]

\* getExecutionBlockReward from the decoded response d on
ExecutionRewardOf(d, resp, blockHash) ==
    IF ~d.ok THEN
        RewardFailed(NewError("failed to decode response: invalid character, response body: "
                              \o BodyText(resp)))
    ELSE IF d.hasErr THEN
        RewardFailed(NewError("API error: " \o d.message \o " (code: "
                              \o FormatInt(BigFromInt(d.code), 10) \o ")"))
    ELSE IF ~d.hasRes THEN
        RewardFailed(NewError("no block data found for hash " \o blockHash))
    ELSE
        RewardOfTotal(SumTxRewards(AsArray(d.result, "transactions").v, BaseFeeOf(d.result), BigZero))

DecodeExecutionReward(resp, blockHash) == ExecutionRewardOf(DecodeRPC(resp), resp, blockHash)

(***************************************************************************)
(* service: sync duties                                                    *)
(***************************************************************************)
SlotsPerEpoch == 32

EpochsPerSyncPeriod == 256

SlotsPerSyncPeriod == 8192

MaxDisplayValidators == 32

validatorPubkeys ==
    <<"0x8000091c2ae64ee414a54c1cc1fc67dec663408bc636cb86756e0200e41a75c8f86603f104f02c856983d2783116be13",
      "0x8000091c2ae64ee414a54c1cc1fc67dec663408bc636cb86756e0200e41a75c8f86603f104f02c856983d2783116be14",
      "0xa1d1ad0714035353258038e964ae9675dc0252ee24daffcb82688956ebf71d0de0fc5450436cfb148eb867acb2bdf44d",
      "0xb2ff4716ed345b05dd1dfc6a5a9fa70856d8c75dcc9e881dd2f766d5f891326f0d0b9024523b9c35cc13d9c0e689aea3",
      "0x8a896180ff9d8e98304e9b2e5c418202fa0e50a1157442a5b52fc10b464a6c114dfc31f463e4ea27c1c24112e3a14857",
      "0x8d61ee78745e8c855af1085184e9c5646418fcfc5f446e3e99d5db6b0cbe74f7c0792833c876044d53bd7886de12371c",
      "0xae241af60691fda1cf8ca44d49573c55818c53b6141800cca2d488b9a3fba71c0f869179fff50c084ae31d9bac2ba35c",
      "0x84274f8d9c1e25d6d2f6b62c256e427e9daa79dff932a658b334ce3a5775574b23b6532753b90b74e56a24b148caf5b7",
      "0x872c61b4a7f8510ec809e5b023f5fdda2105d024c470ddbbeca4bc74e8280af0d178d749853e8f6a841083ac1b4db98f",
      "0xb2965bf5de4731c8fef4f2d8886d4f9564c5d2d8eb957e5f624dd010e9c36f947c6c0ab78df06e67dd6cf290c53313e5",
      "0x8cffca6ab53ec85904d6a32f0b360c027926d4ae83c136b7fa979ebaba16da82c37bb4a335629741e1ffc8017f0c0d99",
      "0x8e98f02a14788cc9348d4c988ff98c2440282a230a57d0e57482c59a90f11df1ec93af597c9b6188a2ba7d82ac5d52a1",
      "0x8f5bab954b24a4e9b118a8a39b4c3663d6861b3316fd5a326a2a632a7de1438fe2dafe9d4d3429f04db5a1a5c1e89c4e",
      "0x90a766525a8141ad2869e3b3ae9a952f61e596235a548631e3354ff3881891c18fc9e7d1fc3fd65c3271693e781c215a",
      "0x909d0f2fa98422ce15369643b650aa1200a1200cc88ab416ca3f2ea9582b651f0a97bd10dfa8735402cf89a2498c9af5",
      "0x948339fff96a195de4bdc3e121abc427dae48f23966244b1363436a61e5d0c733e79feb9f900ea58a9886fc0ba862be6",
      "0x968bb4503245548dc8dc145cf111762e5e693ec964cef572e87e2939df581cf214f57ae3c49da6728cf427389e6cb3c8",
      "0x974bfc7fe01143d83776ac14de6142fb04b54cf3ca7de9064a2d31183a255525b89ee6af078a8a6ba07cc49186150266",
      "0x994f8f0599cec69720a9871d8734c6e9f5f36d2045294082a51c40f351c7217c69d0f6f66947cd95f88fe9ec0492068d",
      "0x994fcd4a09c273f0f1d46eb219e15c33e6caa9c93a2c87004339ec67c4808559f9f9aeff9cf7e8eea8f13bb5f3a0c5d5",
      "0x99a9a37bc913168a76701a32c53652a19a1ab96ce1a14a121bfb89565def0be5ac0a45c4538e53ff73e1cbd84f763339",
      "0x99ccbcbf38fb63dea44bdc118848574b238c64a0ea48fb2d9f89280a485f56fc4d5c48ac2c3e3331937c35c2cc2d9661",
      "0x9a64ef3e62b96990305c10b76056f2fcc7a3fb92908bbccd1f769304c1c151a1d7f00a09354252bb2f5324b61845d459",
      "0x9a9cdcd34b18e5771c7feb5374d2cc738cbdf3686fbe1d4bacdb9db7eb692edd50c347b15a2cb2de2034028b6b73f44a">>

\* Go's % on machine integers: the remainder has the sign of the dividend
GoRem(a, b) == IF a >= 0 THEN a % b ELSE -((-a) % b)

\* getActiveValidatorsForEpoch; panic where make or the index expression
\* panics (a negative capacity, a negative index)
\* the index without the i*i term
ValidatorIndexOfSeed(seed, i) == GoRem(seed, Len(validatorPubkeys))

\* index := (seed + i*i) % int64(len(validatorPubkeys))
ValidatorIndex(seed, i) == GoRem(seed + i * i, Len(validatorPubkeys))

\* the loop of getActiveValidatorsForEpoch
SelectValidators(seed, count) ==
    IF count < 0 \/ \E i \in 0..(count - 1) : ValidatorIndex(seed, i) < 0
    THEN [panic |-> TRUE, validators |-> <<>>]
    ELSE [panic |-> FALSE,
          validators |-> [k \in 1..count |-> validatorPubkeys[ValidatorIndex(seed, k - 1) + 1]]]

\* count capped at the number of keys
CappedCount(count) == IF count > Len(validatorPubkeys) THEN Len(validatorPubkeys) ELSE count

ValidatorsOfSeed(seed) == SelectValidators(seed, CappedCount(8 + GoRem(seed, 16)))

\* seed := (slot * 1000 + epoch * 2000) % 1000000, in int64
SeedOf(epoch, slotArg) ==
    BigRemSmall(WrapInt64(BigAdd(WrapInt64(BigMul(slotArg, BigFromInt(1000))),
                                 WrapInt64(BigMul(epoch, BigFromInt(2000))))), 1000000)

getActiveValidatorsForEpoch(epoch, slotArg) == ValidatorsOfSeed(SeedOf(epoch, slotArg))

\* the list as it is, with no limit
FirstValidatorsUncapped(v) == v

\* the last 32 entries in the place of the first 32
FirstValidatorsFromEnd(v) ==
    IF Len(v) > MaxDisplayValidators THEN SubSeq(v, Len(v) - MaxDisplayValidators + 1, Len(v)) ELSE v

\* validators[:32]
FirstValidators(v) == IF Len(v) > MaxDisplayValidators THEN SubSeq(v, 1, MaxDisplayValidators) ELSE v

\* json.Unmarshal of the sync committee response into
\* struct { Result struct { Data struct { Validators []string } }; Error *struct{...} }
CommitteeFieldsDecode(result, data, vals, e) ==
    /\ result.t \in {"obj", "null"}
    /\ data.t \in {"obj", "null"}
    /\ vals.t \in {"arr", "null"}
    /\ (vals.t = "arr" => \A i \in 1..Len(vals.v) : vals.v[i].t \in {"str", "null"})
    /\ e.t \in {"obj", "null"}
    /\ Field(e, "code").t \in {"num", "null"}
    /\ Field(e, "message").t \in {"str", "null"}

DecodedCommittee(ok, vals, e) ==
    [ok |-> ok,
     validators |-> IF ok /\ vals.t = "arr"
                    THEN [i \in 1..Len(vals.v) |-> IF vals.v[i].t = "str" THEN vals.v[i].v ELSE ""]
                    ELSE <<>>,
     hasErr  |-> ok /\ e.t = "obj",
     message |-> IF ok /\ e.t = "obj" THEN AsString(e, "message").v ELSE ""]

CommitteeFields(resp, result, data, vals, e) ==
    DecodedCommittee(resp.kind = "json" /\ resp.json.t = "obj"
                     /\ CommitteeFieldsDecode(result, data, vals, e), vals, e)

\* the same for a decoder that refuses every sync committee response
DecodeCommitteeRefused(resp) == DecodedCommittee(FALSE, JNull, JNull)

DecodeCommittee(resp) ==
    CommitteeFields(resp, Field(resp.json, "result"), Path(resp.json, <<"result", "data">>),
                    Path(resp.json, <<"result", "data", "validators">>), Field(resp.json, "error"))

\* json.Unmarshal of the validators response into
\* struct { Result struct { Data []struct { Validator struct { Pubkey string } } } }
\* an element of Data decodes: null, or an object whose validator is null or
\* an object whose pubkey is null or a string
EntryDecodes(x) ==
    /\ x.t \in {"obj", "null"}
    /\ Field(x, "validator").t \in {"obj", "null"}
    /\ Path(x, <<"validator", "pubkey">>).t \in {"str", "null"}

PubkeyOf(x) == AsString(Field(x, "validator"), "pubkey").v

ValidatorsFieldsDecode(result, data) ==
    /\ result.t \in {"obj", "null"}
    /\ data.t \in {"arr", "null"}
    /\ (data.t = "arr" => \A i \in 1..Len(data.v) : EntryDecodes(data.v[i]))

DecodedValidators(ok, data) ==
    [ok |-> ok,
     data |-> IF ok /\ data.t = "arr" THEN [i \in 1..Len(data.v) |-> PubkeyOf(data.v[i])] ELSE <<>>]

ValidatorsFields(resp, result, data) ==
    DecodedValidators(resp.kind = "json" /\ resp.json.t = "obj"
                      /\ ValidatorsFieldsDecode(result, data), data)

DecodeValidators(resp) ==
    ValidatorsFields(resp, Field(resp.json, "result"), Path(resp.json, <<"result", "data">>))

(***************************************************************************)
(* service: construction (NewEthereumService and net/url's Parse, for URLs *)
(* without control characters, userinfo, percent escapes and IPv6 hosts)   *)
(***************************************************************************)
\* the place of the first c in s, 0 when there is none
RECURSIVE IndexFrom(_, _, _)
IndexFrom(s, c, i) ==
    IF i > Len(s) THEN 0
    ELSE IF CharAt(s, i) = c THEN i
    ELSE IndexFrom(s, c, i + 1)

Index(s, c) == IndexFrom(s, c, 1)

\* the place of the last c in s, 0 when there is none
RECURSIVE LastIndexFrom(_, _, _)
LastIndexFrom(s, c, i) ==
    IF i < 1 THEN 0
    ELSE IF CharAt(s, i) = c THEN i
    ELSE LastIndexFrom(s, c, i - 1)

LastIndex(s, c) == LastIndexFrom(s, c, Len(s))

\* s up to its first c, all of s when there is none
Before(s, c) == IF Index(s, c) = 0 THEN s ELSE SubSeq(s, 1, Index(s, c) - 1)

IsLetter(c) == \E i \in 1..26 : CharAt(LowerChars, i) = c \/ CharAt(UpperChars, i) = c

IsDigit(c) == \E i \in 1..10 : CharAt(DigitChars, i) = c

ParseFailed(rawURL, text) ==
    [ok |-> FALSE, Scheme |-> "", Host |-> "",
     err |-> "parse \"" \o rawURL \o "\": " \o text]

Parsed(scheme, host) == [ok |-> TRUE, Scheme |-> scheme, Host |-> host, err |-> ""]

\* getScheme: (scheme, rest) split at the first colon when only scheme
\* characters precede it; no scheme otherwise; an error for a leading colon
RECURSIVE getScheme(_, _)
getScheme(rawURL, i) ==
    IF i > Len(rawURL) THEN [ok |-> TRUE, scheme |-> "", rest |-> rawURL]
    ELSE IF IsLetter(CharAt(rawURL, i)) THEN getScheme(rawURL, i + 1)
    ELSE IF IsDigit(CharAt(rawURL, i)) \/ CharAt(rawURL, i) \in {"+", "-", "."} THEN
        IF i = 1 THEN [ok |-> TRUE, scheme |-> "", rest |-> rawURL]
        ELSE getScheme(rawURL, i + 1)
    ELSE IF CharAt(rawURL, i) = ":" THEN
        IF i = 1 THEN [ok |-> FALSE, scheme |-> "", rest |-> ""]
        ELSE [ok |-> TRUE, scheme |-> SubSeq(rawURL, 1, i - 1),
              rest |-> SubSeq(rawURL, i + 1, Len(rawURL))]
    ELSE [ok |-> TRUE, scheme |-> "", rest |-> rawURL]

\* the characters parseHost takes unescaped in a host
HostChars == "!$&'()*+,;=:[]<>\"-_.~"

IsHostChar(c) ==
    IsLetter(c) \/ IsDigit(c) \/ \E i \in 1..Len(HostChars) : CharAt(HostChars, i) = c

FirstBadHostChar(host) ==
    CharAt(host, CHOOSE i \in 1..Len(host) :
                     /\ ~IsHostChar(CharAt(host, i))
                     /\ \A j \in 1..(i - 1) : IsHostChar(CharAt(host, j)))

\* validOptionalPort: "" or a colon followed by digits
validOptionalPort(port) ==
    port = "" \/ (CharAt(port, 1) = ":" /\ \A i \in 2..Len(port) : IsDigit(CharAt(port, i)))

\* parseHost
parseHost(rawURL, scheme, host) ==
    IF LastIndex(host, ":") # 0 /\ ~validOptionalPort(SubSeq(host, LastIndex(host, ":"), Len(host)))
    THEN ParseFailed(rawURL, "invalid port \"" \o SubSeq(host, LastIndex(host, ":"), Len(host))
                             \o "\" after host")
    ELSE IF \E i \in 1..Len(host) : ~IsHostChar(CharAt(host, i))
    THEN ParseFailed(rawURL, "invalid character \"" \o FirstBadHostChar(host) \o "\" in host name")
    ELSE Parsed(scheme, host)

\* parse from the scheme on: rest is what follows the scheme, the query cut
parseRest(rawURL, scheme, rest) ==
    IF ~HasPrefix(rest, "/") /\ scheme # "" THEN Parsed(scheme, "")
    ELSE IF ~HasPrefix(rest, "/") /\ Contains(Before(rest, "/"), ":")
    THEN ParseFailed(rawURL, "first path segment in URL cannot contain colon")
    ELSE IF HasPrefix(rest, "//") /\ (scheme # "" \/ ~HasPrefix(rest, "///"))
    THEN parseHost(rawURL, scheme, Before(SubSeq(rest, 3, Len(rest)), "/"))
    ELSE Parsed(scheme, "")

parseScheme(rawURL, g) ==
    IF ~g.ok THEN ParseFailed(rawURL, "missing protocol scheme")
    ELSE parseRest(rawURL, ToLower(g.scheme), Before(g.rest, "?"))

\* url.Parse: the fragment is cut, then the scheme, the query, the authority
Parse(rawURL) == parseScheme(Before(rawURL, "#"), getScheme(Before(rawURL, "#"), 1))

NoService == [nil |-> TRUE, rpcURL |-> ""]

\* the checks of NewEthereumService on the parsed URL
ServiceOfURL(rpcURL, parsedURL) ==
    IF ~parsedURL.ok
    THEN [service |-> NoService, err |-> NewError("invalid RPC URL: " \o parsedURL.err)]
    ELSE IF parsedURL.Scheme = ""
    THEN [service |-> NoService, err |-> NewError("RPC URL must be absolute")]
    ELSE IF parsedURL.Scheme # "http" /\ parsedURL.Scheme # "https"
    THEN [service |-> NoService, err |-> NewError("RPC URL must use http or https scheme")]
    ELSE [service |-> [nil |-> FALSE, rpcURL |-> rpcURL], err |-> NilError]

NewEthereumService(rpcURL) ==
    IF rpcURL = ""
    THEN [service |-> NoService, err |-> NewError("RPC URL cannot be empty")]
    ELSE ServiceOfURL(rpcURL, Parse(rpcURL))

(***************************************************************************)
(* Inputs: the clock, the requests and the answers of the upstream         *)
(***************************************************************************)
\* the largest number of rate-limit answers one request meets
MaxRateLimited == 2

Times == {1793538000}

\* values of the ETH_RPC environment variable
RpcURLs ==
    <<"https://example.com", "HTTP://localhost:8545/rpc?key=1#top", "", "not-a-url",
      "path/to/somewhere", "/rpc", "ftp://example.com", "mailto:node@example.com",
      "://example.com", "1http://example.com", "http://example.com:80a", "http://exa mple.com">>

SlotParams ==
    <<"4700000", "1000", "0", "-1", "-2", "149461500", "149461501", "149462500",
      "9223372036854775807", "9223372036854775808", "abc", "">>

RpcError(code, message) ==
    JsonBody(JObj([jsonrpc |-> JStr("2.0"), id |-> JNum(1),
                   error |-> JObj([code |-> JNum(code), message |-> JStr(message)])]))

RpcResult(result) ==
    JsonBody(JObj([jsonrpc |-> JStr("2.0"), id |-> JNum(1), result |-> result]))

RateLimitBody == RpcError(-32007, "15/second request limit reached - reduce calls per second")

TxObjects(n) == [i \in 1..n |-> JObj([hash |-> JStr("0xt" \o FormatInt(BigFromInt(i), 16))])]

BlockWithHash(hash, extraData, txs) ==
    RpcResult(JObj([hash |-> JStr(hash), miner |-> JStr("0xfee"), extraData |-> JStr(extraData),
                    number |-> JStr("0x10"), baseFeePerGas |-> JStr("0x5"),
                    transactions |-> JArr(txs)]))

BlockWithoutHash(extraData, txs) ==
    RpcResult(JObj([miner |-> JStr("0xfee"), extraData |-> JStr(extraData),
                    number |-> JStr("0x10"), transactions |-> JArr(txs)]))

BlockResponses ==
    <<TransportFail("Post \"http://rpc\": dial tcp: connect: connection refused"),
      [kind |-> "readfail", text |-> "unexpected EOF", json |-> JNull],
      RateLimitBody,
      RpcError(-32000, "Unknown block"),
      RpcError(-32000, "header not found"),
      RpcError(-32001, "requested block does not exist"),
      RawBody("<html>502 Bad Gateway</html>"),
      RpcResult(JNull),
      RpcResult(JBool(FALSE)),
      BlockWithHash("0x123", "", <<JStr("0x1")>>),
      BlockWithHash("0x456", "", <<>>),
      BlockWithHash("0x789", "", TxObjects(MevTxThreshold + 1)),
      BlockWithHash("0xabc", "Made by FlashBots", TxObjects(2)),
      BlockWithHash("0xabd", "0x6765746820676f", TxObjects(MevTxThreshold + 1)),
      BlockWithHash("0xabe", "0x6765746820676f", TxObjects(MevTxThreshold)),
      BlockWithHash("0xabf", "geth go", <<JNum(7)>> \o TxObjects(MevTxThreshold)),
      BlockWithoutHash("rsync-builder.xyz", <<>>),
      BlockWithoutHash("", <<JStr("0x1")>>),
      RpcResult(JObj([hash |-> JNull, extraData |-> JStr("geth"), transactions |-> JArr(TxObjects(MevTxThreshold + 1))]))>>

LegacyTx(gasPrice, gas) == JObj([hash |-> JStr("0x1"), gasPrice |-> JStr(gasPrice), gas |-> JStr(gas)])

FeeTx(maxPriorityFeePerGas, gas) ==
    JObj([hash |-> JStr("0x2"), maxPriorityFeePerGas |-> JStr(maxPriorityFeePerGas),
          gasPrice |-> JStr("0x77359400"), gas |-> JStr(gas)])

ExecBlock(baseFeePerGas, txs) ==
    RpcResult(JObj([baseFeePerGas |-> JStr(baseFeePerGas), transactions |-> JArr(txs)]))

ExecResponses ==
    <<TransportFail("Post \"http://rpc\": context deadline exceeded"),
      [kind |-> "readfail", text |-> "unexpected EOF", json |-> JNull],
      RateLimitBody,
      RpcError(-32000, "header not found"),
      RawBody("<html>502 Bad Gateway</html>"),
      RpcResult(JNull),
      ExecBlock("0x5", <<>>),
      ExecBlock("0x5", <<LegacyTx("0x8", "0x5208")>>),
      ExecBlock("0x5", <<JObj([gasPrice |-> JStr("0x8"), gasUsed |-> JStr("0x5208")])>>),
      ExecBlock("0x5", <<LegacyTx("0x3", "0x5208"), FeeTx("0x3b9aca00", "0x5208")>>),
      ExecBlock("0x5", <<FeeTx("0x3b9aca00", "0x1")>>),
      ExecBlock("0x5", <<FeeTx("0x3b9ac9ff", "0x1")>>),
      ExecBlock("0x5", <<FeeTx("0xffffffffffffffff", "0xffffffff"), LegacyTx("0x8", "0x5208")>>),
      ExecBlock("0x5", <<FeeTx("0xffffffffffffffffffffffff", "0x5208")>>),
      ExecBlock("zz", <<LegacyTx("0x8", "0x5208"), LegacyTx("0x12a05f200", "0x5208")>>),
      ExecBlock("0x5", <<FeeTx("0xzz", "0x5208"), JStr("0xhash"), JObj([gas |-> JStr("0x5208")]),
                        FeeTx("0x10", "0x"), LegacyTx("8", "")>>),
      ExecBlock("0x5", <<FeeTx("0x-5", "0x10")>>)>>

(***************************************************************************)
(* Inputs of the sync duties chain                                         *)
(***************************************************************************)
UpstreamKeyBody ==
    "93247f2209abcacf57b75a51dafae777f9dd38bc7053d1af526f220a7489a6d3a2753e5f3e8b1cfe39b56f43611df7"

\* a 48-byte key the upstream serves, distinct for distinct i < 256
UpstreamKey(i) ==
    "0x" \o UpstreamKeyBody \o CharAt(DigitChars, (i \div 16) + 1) \o CharAt(DigitChars, (i % 16) + 1)

UpstreamKeys(n) == [i \in 1..n |-> JStr(UpstreamKey(i))]

CommitteeResult(keys) == RpcResult(JObj([data |-> JObj([validators |-> JArr(keys)])]))

ValidatorEntries(n) ==
    [i \in 1..n |-> JObj([index |-> JStr(FormatInt(BigFromInt(i), 10)),
                         validator |-> JObj([pubkey |-> JStr(UpstreamKey(i))])])]

ValidatorsResult(entries) == RpcResult(JObj([data |-> JArr(entries)]))

CheckResponses ==
    <<TransportFail("Post \"http://rpc\": dial tcp: connect: connection refused"),
      [kind |-> "readfail", text |-> "unexpected EOF", json |-> JNull],
      RateLimitBody,
      RpcResult(JObj([hash |-> JStr("0x123"), number |-> JStr("0x10")])),
      RpcResult(JNull),
      RpcError(-32000, "Unknown block")>>

SyncingResponses ==
    <<TransportFail("Post \"http://rpc\": context deadline exceeded"),
      RpcResult(JBool(FALSE)),
      RateLimitBody>>

CommitteeResponses ==
    <<TransportFail("Post \"http://rpc\": context deadline exceeded"),
      [kind |-> "readfail", text |-> "unexpected EOF", json |-> JNull],
      RateLimitBody,
      RpcError(-32601, "Method not found"),
      RawBody("<html>502 Bad Gateway</html>"),
      CommitteeResult(UpstreamKeys(2)),
      CommitteeResult(UpstreamKeys(MaxDisplayValidators + 1)),
      CommitteeResult(<<>>),
      CommitteeResult(<<JStr("0x123"), JNull>>),
      RpcResult(JNull),
      RpcResult(JObj([data |-> JObj([validators |-> JStr("none")])])),
      JsonBody(JObj([jsonrpc |-> JStr("2.0"), id |-> JNum(3),
                     error |-> JObj([code |-> JNum(-32000), message |-> JStr("")])]))>>

ValidatorsResponses ==
    <<TransportFail("Post \"http://rpc\": context deadline exceeded"),
      [kind |-> "readfail", text |-> "unexpected EOF", json |-> JNull],
      RateLimitBody,
      RpcError(-32601, "Method not found"),
      RawBody("<html>502 Bad Gateway</html>"),
      ValidatorsResult(ValidatorEntries(1)),
      ValidatorsResult(ValidatorEntries(MaxDisplayValidators + 1)),
      ValidatorsResult(<<>>),
      ValidatorsResult(<<JObj([index |-> JStr("1")]), JNull>>),
      RpcResult(JObj([data |-> JStr("none")]))>>

(***************************************************************************)
(* State                                                                   *)
(***************************************************************************)
VARIABLES
    now,          \* the unix time the service reads from the clock
    rpcURL,       \* the value of ETH_RPC
    ethService,   \* the service SetupEndpoints built, nil before and on failure
    setupErr,     \* the error SetupEndpoints returned to main
    endpoint,     \* "blockreward" or "syncduties": the route of the request
    slotParam,    \* the :slot path parameter of the request
    pc,           \* where the request's goroutine stands
    slot,         \* the parsed slot
    calls,        \* the RPC requests sent to the upstream so far, in order
    rateLimited,  \* the number of rate-limit answers met so far
    answer,       \* which of the upstream's answers was taken at each call site
    beaconBlock,  \* the block getBeaconBlock returned
    isMev,        \* isMev of GetBlockRewardBySlot
    totalReward,  \* totalReward of getExecutionBlockReward after its loop
    svc,          \* what the service method returned to the handler
    http,         \* the HTTP response written by the handler
    ctx,          \* the request's context: "live" or "canceled"
    peer          \* a second request whose goroutine is not running now

vars == <<now, rpcURL, ethService, setupErr, endpoint, slotParam, pc, slot, calls, rateLimited, answer,
          beaconBlock, isMev, totalReward, svc, http, ctx, peer>>

NoResponse == [kind |-> "none", text |-> "", json |-> JNull]

\* the error client.Do returns for a request whose context is canceled
ContextCanceled == TransportFail("Post \"http://rpc\": context canceled")

CanceledAnswer == -1

\* the i-th answer of a call site's list, none before the call returned
ResponseAt(responses, i) ==
    IF i = 0 THEN NoResponse
    ELSE IF i = CanceledAnswer THEN ContextCanceled
    ELSE responses[i]

\* the same for a client that does not look at the request's context
AnswersWithoutContext(responses) == 1..Len(responses)

\* the answers a request can get: any of the upstream's while the request's
\* context is live, the context's error once it is canceled
Answers(responses) == IF ctx = "canceled" THEN {CanceledAnswer} ELSE 1..Len(responses)

\* the last answer taken at each call site
upstream ==
    [block |-> ResponseAt(BlockResponses, answer.block),
     exec |-> ResponseAt(ExecResponses, answer.exec),
     check |-> ResponseAt(CheckResponses, answer.check),
     syncing |-> ResponseAt(SyncingResponses, answer.syncing),
     committee |-> ResponseAt(CommitteeResponses, answer.committee),
     validators |-> ResponseAt(ValidatorsResponses, answer.validators)]

NoReturn ==
    [returned |-> FALSE, path |-> "", err |-> NilError, Status |-> "", Reward |-> BigZero,
     validators |-> <<>>]

NoHttp ==
    [code |-> 0, error |-> "", status |-> "", reward |-> BigZero,
     proposer_payment |-> BigZero, is_mev_boost |-> FALSE,
     validators |-> <<>>, sync_period |-> BigZero, committee_size |-> 0]

HttpError(code, text) == [NoHttp EXCEPT !.code = code, !.error = text]

ReturnError(path, err) == [NoReturn EXCEPT !.returned = TRUE, !.path = path, !.err = err]

ReturnReward(path, status, reward) ==
    [NoReturn EXCEPT !.returned = TRUE, !.path = path, !.Status = status, !.Reward = reward]

ReturnValidators(path, validators) ==
    [NoReturn EXCEPT !.returned = TRUE, !.path = path, !.validators = validators]

\* no second request
NoPeer ==
    [endpoint |-> "", slotParam |-> "", pc |-> "none", slot |-> BigZero, calls |-> <<>>,
     rateLimited |-> 0,
     answer |-> [block |-> 0, exec |-> 0, check |-> 0, syncing |-> 0, committee |-> 0,
                 validators |-> 0],
     beaconBlock |-> EmptyBlock, isMev |-> FALSE, totalReward |-> BigZero, svc |-> NoReturn,
     http |-> NoHttp, ctx |-> "live"]

\* a request that came in and whose handler has not run yet
Arrived(route, param) == [NoPeer EXCEPT !.pc = "start", !.endpoint = route, !.slotParam = param]

\* the process at its start, with one request and the requests of peers
\* beside it
InitWith(urls, routes, params, peers) ==
    /\ now \in Times
    /\ rpcURL \in urls
    /\ ethService = NoService
    /\ setupErr = NilError
    /\ endpoint \in routes
    /\ slotParam \in params
    /\ pc = "main"
    /\ slot = BigZero
    /\ calls = <<>>
    /\ rateLimited = 0
    /\ answer = [block |-> 0, exec |-> 0, check |-> 0, syncing |-> 0, committee |-> 0,
                 validators |-> 0]
    /\ beaconBlock = EmptyBlock
    /\ isMev = FALSE
    /\ totalReward = BigZero
    /\ svc = NoReturn
    /\ http = NoHttp
    /\ ctx = "live"
    /\ peer \in peers

Init ==
    InitWith({RpcURLs[i] : i \in 1..Len(RpcURLs)}, {"blockreward", "syncduties"},
             {SlotParams[i] : i \in 1..Len(SlotParams)}, {NoPeer})

\* two requests in flight at once: a reward request and a second request for
\* the same slot or another one
ConcInit ==
    InitWith({"https://example.com"}, {"blockreward"}, {"4700000"},
             {Arrived(route, param) : route \in {"blockreward", "syncduties"},
                                      param \in {"4700000", "1000"}})

(***************************************************************************)
(* main and SetupEndpoints                                                 *)
(***************************************************************************)
\* SetupEndpoints: the service is built from ETH_RPC; on an error main logs
\* it and exits, otherwise the two routes are registered
SetupEndpoints ==
    /\ pc = "main"
    /\ \E made \in {NewEthereumService(rpcURL)} :
           /\ ethService' = made.service
           /\ setupErr' = made.err
           /\ pc' = IF made.err.nil THEN "start" ELSE "fatal"
    /\ UNCHANGED <<ctx, peer, now, rpcURL, endpoint, slotParam, slot, calls, rateLimited, answer,
                   beaconBlock, isMev, totalReward, svc, http>>

(***************************************************************************)
(* GET /blockreward/:slot                                                  *)
(***************************************************************************)
\* the handler from the return of GetBlockRewardBySlot on
GetBlockRewardRespond(ret) ==
    IF ~ret.err.nil THEN
        IF ErrorsIs(ret.err, ErrFutureSlot) THEN HttpError(400, "Slot is in the future")
        ELSE IF ErrorsIs(ret.err, ErrSlotNotFound) THEN HttpError(404, "Slot does not exist")
        ELSE HttpError(500, "Internal server error")
    ELSE [NoHttp EXCEPT !.code = 200,
                        !.status = ret.Status,
                        !.reward = WrapInt64(ret.Reward),
                        !.proposer_payment = WrapInt64(ret.Reward),
                        !.is_mev_boost = (ret.Status = "mev")]

RewardReturns(ret) ==
    /\ svc' = ret
    /\ http' = GetBlockRewardRespond(ret)
    /\ pc' = "responded"

\* the handler up to the call of the service, and GetBlockRewardBySlot up to
\* its call of getBeaconBlock
GetBlockRewardEnter ==
    /\ pc = "start"
    /\ endpoint = "blockreward"
    /\ \E p \in {ParseInt(slotParam)}, currentSlot \in {CurrentSlot(now)} :
           IF ~p.ok THEN
               /\ http' = HttpError(400, "Invalid slot number")
               /\ pc' = "responded"
               /\ UNCHANGED <<slot, svc>>
           ELSE IF BigCmp(p.v, currentSlot) > 0 THEN
               /\ slot' = p.v
               /\ RewardReturns(ReturnError("future",
                      Wrap(ErrFutureSlot.msg \o " (current slot: " \o FormatInt(currentSlot, 10) \o ")",
                           ErrFutureSlot)))
           ELSE
               /\ slot' = p.v
               /\ pc' = "getBeaconBlock"
               /\ UNCHANGED <<svc, http>>
    /\ UNCHANGED <<ctx, peer, now, rpcURL, ethService, setupErr, endpoint, slotParam, calls, rateLimited, answer, beaconBlock,
                   isMev, totalReward>>

\* the early return with the classification of the block as its status
ShortCircuitWithClassification(mev) == ReturnReward("short", StatusOf(mev), BigFromInt(0))

\* GetBlockRewardBySlot's return for a block without a block hash
ShortCircuitReward(mev) == ReturnReward("short", "vanilla", BigFromInt(0))

\* the same with the error of getBeaconBlock dropped and the block taken as
\* one without a hash
BeaconBlockFailureDropped(err) == ReturnReward("short", "vanilla", BigFromInt(0))

\* GetBlockRewardBySlot's handling of an error of getBeaconBlock
BeaconBlockFailed(err) ==
    IF Contains(err.msg, "does not exist")
    THEN ReturnError("block", ErrSlotNotFound)
    ELSE ReturnError("block", Wrap("failed to get beacon block: " \o err.msg, err))

\* one round trip of getBeaconBlock and, when it returns, GetBlockRewardBySlot
\* up to its call of getExecutionBlockReward
GetBeaconBlockCall ==
    /\ pc = "getBeaconBlock"
    /\ \E i \in Answers(BlockResponses) :
        \E resp \in {ResponseAt(BlockResponses, i)} :
        \E dec \in {DecodeBeaconBlock(resp, slot)} :
            /\ calls' = Append(calls, [method |-> "eth_getBlockByNumber",
                                       params |-> <<JStr("0x" \o FormatInt(slot, 16)), JBool(TRUE)>>])
            /\ IF resp.kind = "fail" THEN
                   /\ RewardReturns(BeaconBlockFailed(NewError(resp.text)))
                   /\ answer' = [answer EXCEPT !.block = i]
                   /\ UNCHANGED <<rateLimited, beaconBlock, isMev>>
               ELSE IF resp.kind = "readfail" THEN
                   /\ RewardReturns(BeaconBlockFailed(
                          NewError("failed to read response body: " \o resp.text)))
                   /\ answer' = [answer EXCEPT !.block = i]
                   /\ UNCHANGED <<rateLimited, beaconBlock, isMev>>
               ELSE IF IsRateLimited(resp) THEN
                   /\ rateLimited < MaxRateLimited
                   /\ rateLimited' = rateLimited + 1
                   /\ UNCHANGED <<pc, answer, beaconBlock, isMev, svc, http>>
               ELSE IF ~dec.err.nil THEN
                   /\ RewardReturns(BeaconBlockFailed(dec.err))
                   /\ answer' = [answer EXCEPT !.block = i]
                   /\ UNCHANGED <<rateLimited, beaconBlock, isMev>>
               ELSE
                   /\ answer' = [answer EXCEPT !.block = i]
                   /\ beaconBlock' = dec.block
                   /\ \E mev \in {isMEVBlock(dec.block)} :
                          /\ isMev' = mev
                          /\ IF dec.block.BlockHash = ""
                             THEN RewardReturns(ShortCircuitReward(mev))
                             ELSE /\ pc' = "getExecutionBlockReward"
                                  /\ UNCHANGED <<svc, http>>
                   /\ UNCHANGED rateLimited
    /\ UNCHANGED <<ctx, peer, now, rpcURL, ethService, setupErr, endpoint, slotParam, slot, totalReward>>

\* the replacement of a zero GWEI reward by the default of
\* getExecutionBlockReward in GWEI
NonZeroGweiAsDefault(gweiReward) ==
    IF BigCmp(gweiReward, BigFromInt(0)) = 0 THEN DivGwei(DefaultRewardWei) ELSE gweiReward

\* the replacement of a zero GWEI reward by the placeholder
NonZeroGwei(gweiReward) ==
    IF BigCmp(gweiReward, BigFromInt(0)) = 0 THEN ZeroPlaceholderGwei ELSE gweiReward

\* the same without the replacement of a zero GWEI reward
ExecutionRewardReturnedRaw(err, reward, mev) ==
    IF ~err.nil
    THEN ReturnReward("fallback", StatusOf(mev), DivGwei(FallbackRewardWei))
    ELSE ReturnReward("normal", StatusOf(mev), DivGwei(reward))

\* GetBlockRewardBySlot from the return of getExecutionBlockReward on
ExecutionRewardReturned(err, reward, mev) ==
    IF ~err.nil
    THEN ReturnReward("fallback", StatusOf(mev), DivGwei(FallbackRewardWei))
    ELSE ReturnReward("normal", StatusOf(mev), NonZeroGwei(DivGwei(reward)))

\* one round trip of getExecutionBlockReward and, when it returns, the rest of
\* GetBlockRewardBySlot and of the handler
GetExecutionBlockRewardCall ==
    /\ pc = "getExecutionBlockReward"
    /\ \E i \in Answers(ExecResponses) :
        \E resp \in {ResponseAt(ExecResponses, i)} :
        \E dec \in {DecodeExecutionReward(resp, beaconBlock.BlockHash)} :
            /\ calls' = Append(calls, [method |-> "eth_getBlockByHash",
                                       params |-> <<JStr(beaconBlock.BlockHash), JBool(TRUE)>>])
            /\ IF resp.kind = "fail" THEN
                   /\ RewardReturns(ExecutionRewardReturned(NewError(resp.text), BigZero, isMev))
                   /\ answer' = [answer EXCEPT !.exec = i]
                   /\ UNCHANGED <<rateLimited, totalReward>>
               ELSE IF resp.kind = "readfail" THEN
                   /\ RewardReturns(ExecutionRewardReturned(
                          NewError("failed to read response body: " \o resp.text), BigZero, isMev))
                   /\ answer' = [answer EXCEPT !.exec = i]
                   /\ UNCHANGED <<rateLimited, totalReward>>
               ELSE IF IsRateLimited(resp) THEN
                   /\ rateLimited < MaxRateLimited
                   /\ rateLimited' = rateLimited + 1
                   /\ UNCHANGED <<pc, answer, totalReward, svc, http>>
               ELSE
                   /\ RewardReturns(ExecutionRewardReturned(dec.err, dec.reward, isMev))
                   /\ answer' = [answer EXCEPT !.exec = i]
                   /\ totalReward' = dec.total
                   /\ UNCHANGED rateLimited
    /\ UNCHANGED <<ctx, peer, now, rpcURL, ethService, setupErr, endpoint, slotParam, slot, beaconBlock, isMev>>

(***************************************************************************)
(* GET /syncduties/:slot                                                   *)
(***************************************************************************)
\* the handler from the return of GetSyncDutiesBySlot on
GetSyncDutiesRespond(ret, slotArg) ==
    IF ~ret.err.nil THEN
        IF ErrorsIs(ret.err, ErrFutureSlot) THEN HttpError(400, "Slot is too far in the future")
        ELSE IF ErrorsIs(ret.err, ErrSlotNotFound) THEN HttpError(404, "Slot does not exist")
        ELSE HttpError(500, "Internal server error")
    ELSE [NoHttp EXCEPT !.code = 200,
                        !.validators = ret.validators,
                        !.sync_period = BigQuoSmall(slotArg, SlotsPerSyncPeriod),
                        !.committee_size = Len(ret.validators)]

SyncReturns(ret, slotArg) ==
    /\ svc' = ret
    /\ http' = GetSyncDutiesRespond(ret, slotArg)
    /\ pc' = "responded"

\* a panic of the service, recovered by gin's Recovery middleware
SyncPanics ==
    /\ svc' = [NoReturn EXCEPT !.path = "panic"]
    /\ http' = HttpError(500, "")
    /\ pc' = "responded"

Epoch(slotArg) == BigQuoSmall(slotArg, SlotsPerEpoch)

SyncPeriod(slotArg) == BigQuoSmall(Epoch(slotArg), EpochsPerSyncPeriod)

\* the same with the block check request sent ahead of the slot check
GetSyncDutiesEnterAfterCall ==
    /\ pc = "start"
    /\ endpoint = "syncduties"
    /\ \E p \in {ParseInt(slotParam)} :
           IF ~p.ok THEN
               /\ http' = HttpError(400, "Invalid slot number")
               /\ pc' = "responded"
               /\ UNCHANGED <<slot, svc, calls>>
           ELSE IF BigCmp(p.v, CurrentSlot(now)) > 0 THEN
               /\ slot' = p.v
               /\ calls' = Append(calls, [method |-> "eth_getBlockByNumber",
                                          params |-> <<JStr("0x" \o FormatInt(p.v, 16)), JBool(FALSE)>>])
               /\ SyncReturns(ReturnError("future", ErrFutureSlot), p.v)
           ELSE
               /\ slot' = p.v
               /\ pc' = "syncBlockCheck"
               /\ UNCHANGED <<svc, http, calls>>
    /\ UNCHANGED <<ctx, peer, now, rpcURL, ethService, setupErr, endpoint, slotParam, rateLimited, answer,
                   beaconBlock, isMev, totalReward>>

\* the handler up to the call of the service, and GetSyncDutiesBySlot up to
\* its first request
GetSyncDutiesEnter ==
    /\ pc = "start"
    /\ endpoint = "syncduties"
    /\ \E p \in {ParseInt(slotParam)} :
           IF ~p.ok THEN
               /\ http' = HttpError(400, "Invalid slot number")
               /\ pc' = "responded"
               /\ UNCHANGED <<slot, svc>>
           ELSE IF BigCmp(p.v, CurrentSlot(now)) > 0 THEN
               /\ slot' = p.v
               /\ SyncReturns(ReturnError("future", ErrFutureSlot), p.v)
           ELSE
               /\ slot' = p.v
               /\ pc' = "syncBlockCheck"
               /\ UNCHANGED <<svc, http>>
    /\ UNCHANGED <<ctx, peer, now, rpcURL, ethService, setupErr, endpoint, slotParam, calls, rateLimited, answer, beaconBlock,
                   isMev, totalReward>>

\* the eth_getBlockByNumber request of GetSyncDutiesBySlot; on a rate-limit
\* answer the method calls itself and so comes back to this request
SyncBlockCheckCall ==
    /\ pc = "syncBlockCheck"
    /\ \E i \in Answers(CheckResponses) :
        \E resp \in {ResponseAt(CheckResponses, i)} :
            /\ calls' = Append(calls, [method |-> "eth_getBlockByNumber",
                                       params |-> <<JStr("0x" \o FormatInt(slot, 16)), JBool(FALSE)>>])
            /\ IF resp.kind = "fail" THEN
                   /\ SyncReturns(ReturnError("check",
                          Wrap(ErrRPCFailed.msg \o ": " \o resp.text, ErrRPCFailed)), slot)
                   /\ answer' = [answer EXCEPT !.check = i]
                   /\ UNCHANGED rateLimited
               ELSE IF resp.kind = "readfail" THEN
                   /\ SyncReturns(ReturnError("check",
                          NewError("failed to read response body: " \o resp.text)), slot)
                   /\ answer' = [answer EXCEPT !.check = i]
                   /\ UNCHANGED rateLimited
               ELSE IF IsRateLimited(resp) THEN
                   /\ rateLimited < MaxRateLimited
                   /\ rateLimited' = rateLimited + 1
                   /\ UNCHANGED <<pc, answer, svc, http>>
               ELSE
                   /\ pc' = "syncSyncing"
                   /\ answer' = [answer EXCEPT !.check = i]
                   /\ UNCHANGED <<rateLimited, svc, http>>
    /\ UNCHANGED <<ctx, peer, now, rpcURL, ethService, setupErr, endpoint, slotParam, slot, beaconBlock, isMev, totalReward>>

\* the eth_syncing request; its response is closed unread
SyncSyncingCall ==
    /\ pc = "syncSyncing"
    /\ \E i \in Answers(SyncingResponses) :
        \E resp \in {ResponseAt(SyncingResponses, i)} :
            /\ calls' = Append(calls, [method |-> "eth_syncing", params |-> <<>>])
            /\ answer' = [answer EXCEPT !.syncing = i]
            /\ IF resp.kind = "fail" THEN
                   SyncReturns(ReturnError("syncing",
                       NewError("failed to make sync check request: " \o resp.text)), slot)
               ELSE
                   /\ pc' = "syncCommittee"
                   /\ UNCHANGED <<svc, http>>
    /\ UNCHANGED <<ctx, peer, now, rpcURL, ethService, setupErr, endpoint, slotParam, slot, rateLimited, beaconBlock, isMev, totalReward>>

\* the beacon_get_state_sync_committees request and the use of its response
SyncCommitteeCall ==
    /\ pc = "syncCommittee"
    /\ \E i \in Answers(CommitteeResponses) :
        \E resp \in {ResponseAt(CommitteeResponses, i)} :
        \E dec \in {DecodeCommittee(resp)} :
            /\ calls' = Append(calls, [method |-> "beacon_get_state_sync_committees",
                                       params |-> <<JStr("0x" \o FormatInt(Epoch(slot), 16)),
                                                    JStr("0x" \o FormatInt(SyncPeriod(slot), 16))>>])
            /\ answer' = [answer EXCEPT !.committee = i]
            /\ IF resp.kind = "fail" THEN
                   SyncReturns(ReturnError("committee",
                       NewError("failed to make committee request: " \o resp.text)), slot)
               ELSE IF resp.kind = "readfail" THEN
                   SyncReturns(ReturnError("committee",
                       NewError("failed to read committee response body: " \o resp.text)), slot)
               ELSE IF ~dec.ok \/ (dec.hasErr /\ dec.message # "") THEN
                   /\ pc' = "syncValidators"
                   /\ UNCHANGED <<svc, http>>
               ELSE
                   SyncReturns(ReturnValidators("committee", FirstValidators(dec.validators)), slot)
    /\ UNCHANGED <<ctx, peer, now, rpcURL, ethService, setupErr, endpoint, slotParam, slot, rateLimited, beaconBlock, isMev, totalReward>>

\* the beacon_get_validators request and the use of its response, the
\* generated list of getActiveValidatorsForEpoch included
SyncValidatorsCall ==
    /\ pc = "syncValidators"
    /\ \E i \in Answers(ValidatorsResponses) :
        \E resp \in {ResponseAt(ValidatorsResponses, i)} :
        \E dec \in {DecodeValidators(resp)} :
        \E gen \in {getActiveValidatorsForEpoch(Epoch(slot), slot)} :
            /\ calls' = Append(calls, [method |-> "beacon_get_validators",
                                       params |-> <<JStr("0x" \o FormatInt(Epoch(slot), 16))>>])
            /\ answer' = [answer EXCEPT !.validators = i]
            /\ IF resp.kind = "fail" THEN
                   SyncReturns(ReturnError("validators",
                       NewError("failed to make validators request: " \o resp.text)), slot)
               ELSE IF resp.kind = "readfail" THEN
                   SyncReturns(ReturnError("validators",
                       NewError("failed to read validators response body: " \o resp.text)), slot)
               ELSE IF ~dec.ok \/ Len(dec.data) = 0 THEN
                   IF gen.panic THEN SyncPanics
                   ELSE SyncReturns(ReturnValidators("synthetic", gen.validators), slot)
               ELSE
                   SyncReturns(ReturnValidators("validators", FirstValidators(dec.data)), slot)
    /\ UNCHANGED <<ctx, peer, now, rpcURL, ethService, setupErr, endpoint, slotParam, slot, rateLimited, beaconBlock, isMev, totalReward>>

(***************************************************************************)
(* The request's context                                                   *)
(***************************************************************************)
\* the client gives the request up: net/http cancels the request's context
Cancel ==
    /\ pc \notin {"main", "fatal", "responded"}
    /\ ctx = "live"
    /\ ctx' = "canceled"
    /\ UNCHANGED <<peer, now, rpcURL, ethService, setupErr, endpoint, slotParam, pc, slot, calls,
                   rateLimited, answer, beaconBlock, isMev, totalReward, svc, http>>

(***************************************************************************)
(* Two requests                                                            *)
(***************************************************************************)
\* what the goroutine of the running request holds: the arguments and local
\* variables of the handler and of the service method it called
Local ==
    [endpoint |-> endpoint, slotParam |-> slotParam, pc |-> pc, slot |-> slot, calls |-> calls,
     rateLimited |-> rateLimited, answer |-> answer, beaconBlock |-> beaconBlock, isMev |-> isMev,
     totalReward |-> totalReward, svc |-> svc, http |-> http, ctx |-> ctx]

\* the same with the slot kept in a place both requests use
SwitchSharingSlot ==
    /\ pc \notin {"main", "fatal"}
    /\ peer.pc \notin {"none", "responded"}
    /\ peer' = Local
    /\ endpoint' = peer.endpoint
    /\ slotParam' = peer.slotParam
    /\ pc' = peer.pc
    /\ calls' = peer.calls
    /\ rateLimited' = peer.rateLimited
    /\ answer' = peer.answer
    /\ beaconBlock' = peer.beaconBlock
    /\ isMev' = peer.isMev
    /\ totalReward' = peer.totalReward
    /\ svc' = peer.svc
    /\ http' = peer.http
    /\ ctx' = peer.ctx
    /\ UNCHANGED <<slot, now, rpcURL, ethService, setupErr>>

\* the scheduler runs the goroutine of the other request: each goroutine
\* keeps its own arguments and local variables, the service and the clock are
\* the ones both use
Switch ==
    /\ pc \notin {"main", "fatal"}
    /\ peer.pc \notin {"none", "responded"}
    /\ peer' = Local
    /\ endpoint' = peer.endpoint
    /\ slotParam' = peer.slotParam
    /\ pc' = peer.pc
    /\ slot' = peer.slot
    /\ calls' = peer.calls
    /\ rateLimited' = peer.rateLimited
    /\ answer' = peer.answer
    /\ beaconBlock' = peer.beaconBlock
    /\ isMev' = peer.isMev
    /\ totalReward' = peer.totalReward
    /\ svc' = peer.svc
    /\ http' = peer.http
    /\ ctx' = peer.ctx
    /\ UNCHANGED <<now, rpcURL, ethService, setupErr>>

\* the answers the upstream gives while two requests are in flight: a short
\* list for each call site, the rate-limit answer besides
ShortList ==
    [block |-> {4, 10, 13, 17}, exec |-> {1, 8}, check |-> {4}, syncing |-> {2},
     committee |-> {4, 6}, validators |-> {6, 8}]

\* the rate-limit answers one of two interleaved requests is given
MaxRateLimitedInFlight == 1

ShortListed ==
    /\ \A site \in DOMAIN answer : answer[site] \in ShortList[site] \cup {0, CanceledAnswer}
    /\ rateLimited <= MaxRateLimitedInFlight

Next ==
    \/ SetupEndpoints
    \/ GetBlockRewardEnter
    \/ GetBeaconBlockCall
    \/ GetExecutionBlockRewardCall
    \/ GetSyncDutiesEnter
    \/ SyncBlockCheckCall
    \/ SyncSyncingCall
    \/ SyncCommitteeCall
    \/ SyncValidatorsCall
    \/ Cancel

Spec == Init /\ [][Next]_vars

\* the place of the request's goroutine in the code and in its retries
position == <<pc, rateLimited>>

Running == pc \notin {"fatal", "responded"}

Positions ==
    {"main", "fatal", "start", "getBeaconBlock", "getExecutionBlockReward", "syncBlockCheck",
     "syncSyncing", "syncCommittee", "syncValidators", "responded"}

\* a step of the goroutine that serves the request: it moves on in the code
\* or starts the retry of a request
Proceeds ==
    /\ Running
    /\ \E p \in Positions : pc' = p
    /\ \E r \in 0..MaxRateLimited : rateLimited' = r

\* the goroutine of a request is scheduled until it is done and every RPC
\* request returns (the client's timeout of 10 seconds): a request that is
\* not done takes its next step
FairSpec == Spec /\ WF_position(Proceeds)

\* a step of the running request or a switch to the other one
ConcNext ==
    \/ Next /\ ShortListed'
    \/ Switch

ConcSpec == ConcInit /\ [][ConcNext]_vars

(***************************************************************************)
(* Properties                                                              *)
(***************************************************************************)
Dec(digits) == SetString(digits, 10).v

OneGweiInWei == Dec("1000000000")

Responded == pc = "responded"

RewardSucceeded == Responded /\ endpoint = "blockreward" /\ svc.returned /\ svc.err.nil

SyncSucceeded == Responded /\ endpoint = "syncduties" /\ svc.returned /\ svc.err.nil

\* the block fetch was answered with a block
BlockFetched ==
    /\ endpoint = "blockreward"
    /\ upstream.block.kind = "json"
    /\ DecodeRPC(upstream.block).ok
    /\ ~DecodeRPC(upstream.block).hasErr
    /\ DecodeRPC(upstream.block).hasRes

\* the execution-block fetch was answered with a block
ExecFetched ==
    /\ upstream.exec.kind = "json"
    /\ DecodeRPC(upstream.exec).ok
    /\ ~DecodeRPC(upstream.exec).hasErr
    /\ DecodeRPC(upstream.exec).hasRes

\* the execution-block fetch was answered with the block of resp
ExecIs(resp) ==
    /\ ExecFetched
    /\ DecodeRPC(upstream.exec).result.t = "obj"
    /\ upstream.exec = resp

\* the execution-block fetch was made and failed
ExecFailed == upstream.exec.kind # "none" /\ ~ExecFetched

\* q is total integer-divided by 10^9
IsGweiOf(q, total) ==
    /\ BigCmp(BigMul(q, OneGweiInWei), total) <= 0
    /\ BigCmp(total, BigMul(BigAdd(q, BigFromInt(1)), OneGweiInWei)) < 0

\* 12 * slot > now, which is slot > floor(now / 12)
IsFutureRequest ==
    /\ ParseInt(slotParam).ok
    /\ BigCmp(BigMul(ParseInt(slotParam).v, BigFromInt(12)), BigFromInt(now)) > 0

\* C1: for every slot greater than floor(now / 12), GetBlockRewardBySlot and
\* GetSyncDutiesBySlot both fail with an error that errors.Is identifies as
\* ErrFutureSlot, and return no result.
C1_FutureSlotFails ==
    (IsFutureRequest /\ pc \notin {"main", "fatal", "start"}) =>
        /\ Responded
        /\ svc.returned
        /\ ErrorsIs(svc.err, ErrFutureSlot)
        /\ svc.Status = "" /\ svc.Reward = BigZero /\ svc.validators = <<>>

C1_Witness ==
    /\ Responded /\ endpoint = "blockreward" /\ slotParam = "149462500"
    /\ ErrorsIs(svc.err, ErrFutureSlot)
    /\ svc.err.msg = "requested slot is in the future (current slot: 149461500)"

\* C2: when the upstream answers the block fetch with the JSON-RPC error
\* message "Unknown block", GetBlockRewardBySlot fails with ErrSlotNotFound and
\* the handler answers 404 with the body {"error": "Slot does not exist"}.
C2_UnknownBlockIsNotFound ==
    (/\ Responded /\ endpoint = "blockreward"
     /\ upstream.block.kind = "json"
     /\ DecodeRPC(upstream.block).hasErr
     /\ DecodeRPC(upstream.block).message = "Unknown block") =>
        /\ ErrorsIs(svc.err, ErrSlotNotFound)
        /\ http.code = 404
        /\ http.error = "Slot does not exist"

\* C3: every successful result of GetBlockRewardBySlot, on every path (early
\* return, fetch-failure fallback, zero replacement, normal), has a reward
\* that is not negative and a status that is "mev" or "vanilla".
C3_RewardResultWellFormed ==
    RewardSucceeded =>
        /\ svc.path \in {"short", "fallback", "normal"}
        /\ ~svc.Reward.neg
        /\ svc.Status \in {"mev", "vanilla"}

C3_Witness ==
    /\ RewardSucceeded /\ svc.path = "normal"
    /\ totalReward = Dec("-80")
    /\ svc.Reward = Dec("10")

\* C4: when the execution-block fetch fails after the block fetch gave a
\* block with a hash, GetBlockRewardBySlot does not fail: it returns the
\* classification computed from the block with a fixed fallback reward that
\* is a positive number of GWEI.
C4_FallbackRewardPositive ==
    (Responded /\ BlockFetched /\ beaconBlock.BlockHash # "" /\ ExecFailed) =>
        /\ svc.returned /\ svc.err.nil
        /\ svc.Status = StatusOf(isMev)
        /\ BigSign(svc.Reward) > 0

C5Block == ExecBlock("0x5", <<LegacyTx("0x8", "0x5208")>>)

EmptyExtraDataSucceeded == RewardSucceeded /\ BlockFetched /\ beaconBlock.ExtraData = ""

BuilderNames == {"flashbots", "builder0x69", "rsync-builder", "manifold", "eth-builder"}

NamesBuilder(extraData) ==
    \E name \in BuilderNames : \E k \in 1..Len(extraData) :
        /\ k + Len(name) - 1 <= Len(extraData)
        /\ ToLower(SubSeq(extraData, k, k + Len(name) - 1)) = name

Classification(extraData, txCount) ==
    IF extraData = "" THEN "vanilla"
    ELSE IF NamesBuilder(extraData) THEN "mev"
    ELSE IF txCount > 20 THEN "mev"
    ELSE "vanilla"

\* the classification of the blocks 10..19 of BlockResponses
ExpectedClassification ==
    <<"vanilla", "vanilla", "vanilla", "mev", "mev", "vanilla", "vanilla", "mev", "vanilla", "mev">>

\* C7: the classification of isMEVBlock is a function of extra_data and the
\* transaction count alone: empty extra_data gives vanilla whatever the count;
\* otherwise extra_data containing a builder name, in any case, gives mev;
\* otherwise a count above 20 gives mev; otherwise vanilla.
C7_Classification ==
    (BlockFetched /\ pc # "getBeaconBlock") =>
        /\ StatusOf(isMev) = Classification(beaconBlock.ExtraData, Len(beaconBlock.Transactions))
        /\ \A i \in 1..Len(ExpectedClassification) :
               upstream.block = BlockResponses[i + 9] => StatusOf(isMev) = ExpectedClassification[i]

C7_Witness ==
    /\ BlockFetched
    /\ beaconBlock.ExtraData = "0x6765746820676f"
    /\ Len(beaconBlock.Transactions) = 21
    /\ isMev

\* the totals in wei of the execution blocks 7..17 of ExecResponses
ExpectedTotalWei ==
    <<"0", "63000", "0", "21000000000000", "1000000000", "999999999",
      "79228162495817593515539494425", "1663791412799551089464422957035000",
      "105000000168000", "0", "-80">>

TotalAsExpected ==
    \A i \in 1..Len(ExpectedTotalWei) :
        ExecIs(ExecResponses[i + 6]) => totalReward = Dec(ExpectedTotalWei[i])

C9_NoHashShortCircuit ==
    (BlockFetched /\ pc # "getBeaconBlock"
     /\ AsString(DecodeRPC(upstream.block).result, "hash").v = "") =>
        /\ RewardSucceeded
        /\ svc.Status = "vanilla"
        /\ svc.Reward = Dec("0")
        /\ \A i \in 1..Len(calls) : calls[i].method # "eth_getBlockByHash"

C9_Witness ==
    /\ RewardSucceeded /\ BlockFetched
    /\ beaconBlock.BlockHash = ""
    /\ isMev
    /\ svc.Status = "vanilla" /\ svc.Reward = Dec("0")

\* C10: every successful result of GetSyncDutiesBySlot for a past or present
\* slot holds at least one validator key, whichever upstream strategy or
\* fallback produced it.
C10_NeverEmpty ==
    SyncSucceeded => Len(svc.validators) >= 1

\* the keys of the upstream's sync committee answer, as sent
UpstreamCommitteeKeys == Path(upstream.committee.json, <<"result", "data", "validators">>)

\* the upstream's sync committee answer is a JSON-RPC result that carries a
\* non-empty list of keys and no error
CommitteeCarriesKeys ==
    /\ upstream.committee.kind = "json"
    /\ Field(upstream.committee.json, "error").t = "null"
    /\ UpstreamCommitteeKeys.t = "arr"
    /\ Len(UpstreamCommitteeKeys.v) > 0
    /\ \A i \in 1..Len(UpstreamCommitteeKeys.v) : UpstreamCommitteeKeys.v[i].t = "str"

\* C11: a list returned by GetSyncDutiesBySlot has at most 32 entries, whichever
\* source produced it (sync committee answer, validators answer, generated
\* list), and the handler's committee_size is the length of the list it sends
C11_AtMost32 ==
    SyncSucceeded =>
        /\ svc.path \in {"committee", "validators", "synthetic"}
        /\ Len(svc.validators) <= 32
        /\ http.code = 200
        /\ http.validators = svc.validators
        /\ http.committee_size = Len(svc.validators)

\* an upstream list of more than 32 keys was cut to 32
C11_Witness ==
    /\ SyncSucceeded
    /\ svc.path = "committee"
    /\ CommitteeCarriesKeys
    /\ Len(UpstreamCommitteeKeys.v) > 32
    /\ http.committee_size = 32

HexChars == "0123456789abcdefABCDEF"

IsHexChar(c) == \E i \in 1..Len(HexChars) : CharAt(HexChars, i) = c

\* 0x followed by 96 hex characters: a 48-byte BLS public key
IsPubkey(k) ==
    /\ Len(k) = 98
    /\ HasPrefix(k, "0x")
    /\ \A i \in 3..98 : IsHexChar(CharAt(k, i))

\* C12: every key of a successful GetSyncDutiesBySlot result is a non-empty
\* string of 98 characters, 0x followed by 96 hex characters, the keys taken
\* from the upstream's answers included
C12_KeysWellFormed ==
    SyncSucceeded => \A i \in 1..Len(svc.validators) : IsPubkey(svc.validators[i])

Keys(v) == {v[i] : i \in 1..Len(v)}

\* the request's slot is not negative and not in the future
IsPastSlot == BigSign(slot) >= 0 /\ BigCmp(slot, CurrentSlot(now)) <= 0

\* the seeds 0..47 stand for every non-negative seed: the count depends on
\* seed mod 16 and the indexes on seed mod 24
SeedClasses == 0..47

\* C14: for a slot that is not negative and not in the future, when no
\* upstream answer yields a usable key, the generated list holds at least 4
\* distinct keys, each 98 characters long and starting with 0x
C14_SyntheticKeys ==
    SyncSucceeded /\ svc.path = "synthetic" /\ IsPastSlot =>
        /\ Cardinality(Keys(svc.validators)) >= 4
        /\ \A i \in 1..Len(svc.validators) :
               Len(svc.validators[i]) = 98 /\ HasPrefix(svc.validators[i], "0x")
        /\ \A seed \in SeedClasses :
               /\ ~ValidatorsOfSeed(seed).panic
               /\ Cardinality(Keys(ValidatorsOfSeed(seed).validators)) >= 4
        /\ \A i \in 1..Len(validatorPubkeys) : IsPubkey(validatorPubkeys[i])

\* the generated list was returned for slot 4700000 after both key queries
\* yielded nothing
C14_Witness ==
    /\ SyncSucceeded
    /\ svc.path = "synthetic"
    /\ slotParam = "4700000"
    /\ IsPastSlot
    /\ upstream.committee.kind # "none"
    /\ upstream.validators.kind # "none"
    /\ Len(svc.validators) >= 8

\* the error texts the two handlers write
HandlerErrorTexts ==
    {"Invalid slot number", "Slot is in the future", "Slot is too far in the future",
     "Slot does not exist", "Internal server error"}

\* the status the kind of failure calls for
StatusOfFailure ==
    IF ~ParseInt(slotParam).ok \/ IsFutureRequest THEN 400
    ELSE IF ErrorsIs(svc.err, ErrSlotNotFound) THEN 404
    ELSE 500

\* C15: an error response of either endpoint has the status of its kind of
\* failure (400 for a slot that is no integer or is in the future, 404 for
\* ErrSlotNotFound, 500 otherwise) and the body {error: text} with one of the
\* handlers' fixed texts, never the text of an internal error
C15_ErrorResponse ==
    Responded /\ http.code # 200 =>
        /\ http.code = StatusOfFailure
        /\ http.error \in HandlerErrorTexts

\* the answer to the block check of GetSyncDutiesBySlot holds no block: a
\* JSON-RPC error, or a null result
CheckReportsNoBlock ==
    /\ upstream.check.kind = "json"
    /\ Field(upstream.check.json, "result").t = "null"

\* C16: GET /syncduties/{slot} answers 404 "Slot does not exist" when the
\* upstream's answer to the block check says the slot's block does not exist
C16_SyncMissingBlockIs404 ==
    Responded /\ endpoint = "syncduties" /\ CheckReportsNoBlock =>
        http.code = 404 /\ http.error = "Slot does not exist"

\* SetupEndpoints has run
ServiceConstructed == pc # "main"

\* the four checks of NewEthereumService pass for the URL
ValidRpcURL ==
    /\ rpcURL # ""
    /\ Parse(rpcURL).ok
    /\ Parse(rpcURL).Scheme \in {"http", "https"}

\* C17: NewEthereumService returns a service and no error exactly when the URL
\* is non-empty, parses, is absolute and has scheme http or https; otherwise
\* no service and an error whose text names the first failing check: "cannot
\* be empty" for "", "invalid RPC URL" for a string that is not a URL such as
\* "not-a-url", "must be absolute" for a relative path, "must use http or
\* https" for another scheme
C17_ConstructorErrors ==
    ServiceConstructed =>
        /\ (~ethService.nil /\ setupErr.nil) <=> ValidRpcURL
        /\ ethService.nil <=> ~setupErr.nil
        /\ rpcURL = "" => Contains(setupErr.msg, "cannot be empty")
        /\ rpcURL = "not-a-url" => Contains(setupErr.msg, "invalid RPC URL")
        /\ rpcURL = "path/to/somewhere" => Contains(setupErr.msg, "must be absolute")
        /\ rpcURL = "ftp://example.com" => Contains(setupErr.msg, "must use http or https")

\* C18: for a slot in the future the slot check of either resolver comes
\* before every network call: the resolution ends in the future-slot error
\* with no RPC request sent
C18_FutureSlotNoCalls ==
    /\ Responded /\ IsFutureRequest =>
           /\ svc.returned
           /\ ErrorsIs(svc.err, ErrFutureSlot)
           /\ http.code = 400
           /\ calls = <<>>
    /\ IsFutureRequest => calls = <<>>

\* the sync duty resolver rejected a future slot
C18_Witness ==
    /\ Responded
    /\ endpoint = "syncduties"
    /\ IsFutureRequest
    /\ ErrorsIs(svc.err, ErrFutureSlot)
    /\ calls = <<>>

\* the answer the resolution took as the outcome of a call, and went on
\* with, carries the upstream's rate-limit text
TookRateLimitAnswer(resp) ==
    resp.kind \in {"raw", "json"} /\ Contains(BodyText(resp), "request limit reached")

\* C19: in the sync duty chain a rate-limit answer to any call (block check,
\* sync committee query, validators query) makes the resolver wait and send
\* that call again, so no such answer is taken as the outcome of its call and
\* the chain does not move on to the next strategy because of it
C19_RateLimitRetriesCall ==
    endpoint = "syncduties" =>
        /\ ~TookRateLimitAnswer(upstream.check)
        /\ ~TookRateLimitAnswer(upstream.committee)
        /\ ~TookRateLimitAnswer(upstream.validators)

BlockRequest(slotArg) ==
    [method |-> "eth_getBlockByNumber",
     params |-> <<JStr("0x" \o FormatInt(slotArg, 16)), JBool(TRUE)>>]

ExecRequest(blockHash) ==
    [method |-> "eth_getBlockByHash", params |-> <<JStr(blockHash), JBool(TRUE)>>]

\* 1 when the call site took an answer as the outcome of its call
Taken(resp) == IF resp.kind = "none" THEN 0 ELSE 1

\* the requests of a reward resolution: the block request some number of
\* times, then the execution-block request for the hash of the block
RewardCallsAreReissues ==
    \E k \in 0..Len(calls) :
        /\ \A i \in 1..k : calls[i] = BlockRequest(slot)
        /\ \A i \in (k + 1)..Len(calls) : calls[i] = ExecRequest(beaconBlock.BlockHash)
        /\ k < Len(calls) => upstream.block.kind # "none"

\* what GetBlockRewardBySlot returns for a block answer, when it returns
\* without the execution-block fetch
BlockOutcome(resp, dec, slotArg) ==
    IF resp.kind = "fail" THEN BeaconBlockFailed(NewError(resp.text))
    ELSE IF resp.kind = "readfail"
    THEN BeaconBlockFailed(NewError("failed to read response body: " \o resp.text))
    ELSE IF ~dec.err.nil THEN BeaconBlockFailed(dec.err)
    ELSE ShortCircuitReward(isMEVBlock(dec.block))

\* what GetBlockRewardBySlot returns for an execution-block answer
ExecOutcome(resp, dec, mev) ==
    IF resp.kind = "fail" THEN ExecutionRewardReturned(NewError(resp.text), BigZero, mev)
    ELSE IF resp.kind = "readfail"
    THEN ExecutionRewardReturned(NewError("failed to read response body: " \o resp.text), BigZero, mev)
    ELSE ExecutionRewardReturned(dec.err, dec.reward, mev)

\* the result of the resolution that meets no rate-limit answer and is given
\* the answers blockResp and execResp
ResolutionOf(blockResp, execResp, block, slotArg) ==
    IF execResp.kind = "none"
    THEN BlockOutcome(blockResp, DecodeBeaconBlock(blockResp, slotArg), slotArg)
    ELSE ExecOutcome(execResp, DecodeExecutionReward(execResp, block.BlockHash), isMEVBlock(block))

RewardResolved ==
    Responded /\ endpoint = "blockreward" /\ svc.returned /\ ~IsFutureRequest

\* C20: in the reward resolver a rate-limit answer to the block fetch or to
\* the execution-block fetch is followed by the same request with the same
\* parameters, no rate-limit answer is taken as the outcome of a call, and
\* the result of a resolution that met rate-limit answers is the result of
\* the resolution given the same other answers and no rate-limit answer
C20_RateLimitTransparent ==
    endpoint = "blockreward" =>
        /\ RewardCallsAreReissues
        /\ Len(calls) = rateLimited + Taken(upstream.block) + Taken(upstream.exec)
        /\ ~TookRateLimitAnswer(upstream.block)
        /\ ~TookRateLimitAnswer(upstream.exec)
        /\ RewardResolved =>
               svc = ResolutionOf(upstream.block, upstream.exec,
                                  DecodeBeaconBlock(upstream.block, slot).block, slot)

\* a resolution met a rate-limit answer at each fetch and ended with a reward
C20_Witness ==
    /\ RewardSucceeded
    /\ ExecFetched
    /\ rateLimited = 2
    /\ Len(calls) = 4
    /\ calls[1] = calls[2]
    /\ calls[2] # calls[3]
    /\ calls[3] = calls[4]

\* the handler has a slot to call the resolver with
ResolutionStarts == pc = "start" /\ ParseInt(slotParam).ok

\* the resolver returned: with a result (DONE), with ErrFutureSlot
\* (FUTURE_REJECTED) or with another error (TRANSPORT_FAILURE)
TerminalState == Responded /\ svc.returned

\* C21: every call of GetBlockRewardBySlot or GetSyncDutiesBySlot eventually
\* reaches a terminal state (a result, the future-slot rejection or a
\* failure), given that every RPC request returns and the upstream sends a
\* rate-limit answer only finitely often
C21_ReachesTerminalState == ResolutionStarts ~> TerminalState

\* a request sent under a canceled context gets the context's error as its
\* answer, meets no retry and ends the resolution
CanceledCallFails ==
    (ctx = "canceled" /\ calls' # calls) =>
        /\ Len(calls') = Len(calls) + 1
        /\ \E site \in DOMAIN answer :
               answer[site] # CanceledAnswer /\ answer'[site] = CanceledAnswer
        /\ ResponseAt(<<>>, CanceledAnswer).kind = "fail"
        /\ rateLimited' = rateLimited
        /\ pc' = "responded"

\* C22: once the context of the request is canceled no further RPC request of
\* the resolution completes: the next request fails with the context's error
\* and the resolution ends there, also when the resolver stands in the retry
\* after a rate-limit answer; the resolution terminates
C22_CancelAborts == [][CanceledCallFails]_vars /\ (ctx = "canceled" ~> Responded)

\* a resolution canceled during the retry of the block fetch has ended with
\* the context's error
C22_Witness ==
    /\ Responded
    /\ ctx = "canceled"
    /\ rateLimited >= 1
    /\ answer.block = CanceledAnswer
    /\ svc.returned /\ ~svc.err.nil
    /\ Contains(svc.err.msg, "context canceled")

\* the call sites whose transport error the reward resolver and the probe
\* chain hand on, with the method each one calls
FailingSites ==
    [block |-> "eth_getBlockByNumber", check |-> "eth_getBlockByNumber", syncing |-> "eth_syncing",
     committee |-> "beacon_get_state_sync_committees", validators |-> "beacon_get_validators"]

\* client.Do returned an error at the call site
TransportFailedAt(site) == upstream[site].kind = "fail"

\* the answers taken so far, one for each call site that has one
AnswersTaken ==
    Taken(upstream.block) + Taken(upstream.exec) + Taken(upstream.check)
        + Taken(upstream.syncing) + Taken(upstream.committee) + Taken(upstream.validators)

\* the resolver returned an error and nothing else
FailedWithoutResult ==
    /\ svc.returned
    /\ ~svc.err.nil
    /\ svc.Status = ""
    /\ BigCmp(svc.Reward, BigZero) = 0
    /\ svc.validators = <<>>
    /\ http.code \in {404, 500}
    /\ http.validators = <<>>

\* C23: a transport error that is not a rate-limit answer, at the block fetch
\* of the reward resolver or at any call of the sync-duty probe chain, is the
\* last thing the resolution does: the failed request is not sent again, no
\* later request is sent, and the resolution ends with an error and no result
C23_TransportErrorPropagates ==
    \A site \in DOMAIN FailingSites :
        TransportFailedAt(site) =>
            /\ Responded
            /\ FailedWithoutResult
            /\ calls[Len(calls)].method = FailingSites[site]
            /\ Len(calls) = rateLimited + AnswersTaken
            /\ ~TookRateLimitAnswer(upstream[site])

\* the validators query, the last call of the probe chain, failed in transport
\* after a retried block check and the resolution ended with its error
C23_Witness ==
    /\ Responded
    /\ ctx = "live"
    /\ rateLimited >= 1
    /\ TransportFailedAt("validators")
    /\ FailedWithoutResult
    /\ Contains(svc.err.msg, "failed to make validators request")

\* the requests of the probe chain that follow the block check, in the order
\* of the code
ProbeMethods == <<"eth_syncing", "beacon_get_state_sync_committees", "beacon_get_validators">>

\* the requests sent so far are the block check, sent again after each
\* rate-limit answer, followed by a prefix of the later requests in their order
ProbeOrder ==
    \E k \in 0..Len(calls) :
        /\ Len(calls) > k => k >= 1
        /\ Len(calls) - k <= Len(ProbeMethods)
        /\ \A i \in 1..k : calls[i].method = "eth_getBlockByNumber"
        /\ \A j \in 1..(Len(calls) - k) : calls[k + j].method = ProbeMethods[j]

\* the entries of the upstream's validators answer, as sent
UpstreamValidatorsData == Path(upstream.validators.json, <<"result", "data">>)

\* the upstream's validators answer is a JSON-RPC result that carries a
\* non-empty list of entries with keys
ValidatorsCarryKeys ==
    /\ upstream.validators.kind = "json"
    /\ UpstreamValidatorsData.t = "arr"
    /\ Len(UpstreamValidatorsData.v) > 0
    /\ \A i \in 1..Len(UpstreamValidatorsData.v) :
           Path(UpstreamValidatorsData.v[i], <<"validator", "pubkey">>).t = "str"

\* the generated list was asked for
SyntheticUsed == svc.path \in {"synthetic", "panic"}

\* C24: a sync-duty resolution runs its strategies in the order block check,
\* sync committee query, validators query, generated list: each request is
\* sent only after the earlier ones were answered, the validators query only
\* after the sync committee query gave no usable key, and the generated list
\* only after both key queries gave no usable key
C24_StrategyOrder ==
    endpoint = "syncduties" =>
        /\ ProbeOrder
        /\ upstream.syncing.kind # "none" => upstream.check.kind \in {"raw", "json"}
        /\ upstream.committee.kind # "none" => upstream.syncing.kind \in {"raw", "json"}
        /\ (pc = "syncValidators" \/ upstream.validators.kind # "none") =>
               /\ upstream.committee.kind \in {"raw", "json"}
               /\ ~CommitteeCarriesKeys
        /\ SyntheticUsed =>
               /\ Responded
               /\ Len(calls) >= 4
               /\ upstream.validators.kind \in {"raw", "json"}
               /\ ~CommitteeCarriesKeys
               /\ ~ValidatorsCarryKeys

\* all four strategies ran: the generated list was returned after a retried
\* block check and two key queries without a usable key
C24_Witness ==
    /\ SyncSucceeded
    /\ svc.path = "synthetic"
    /\ rateLimited >= 1
    /\ Len(calls) = rateLimited + 4
    /\ Len(svc.validators) >= 8
    /\ ~CommitteeCarriesKeys
    /\ ~ValidatorsCarryKeys

\* the block hash in the upstream's answer to the block fetch, as sent
UpstreamBlockHash == AsString(DecodeRPC(upstream.block).result, "hash").v

\* the requests sent so far are block fetches followed by execution-block
\* fetches, the latter only after a block answer and for the hash it carries
BlockFetchFirst ==
    \E k \in 0..Len(calls) :
        /\ \A i \in 1..k : calls[i].method = "eth_getBlockByNumber"
        /\ \A i \in (k + 1)..Len(calls) :
               /\ calls[i].method = "eth_getBlockByHash"
               /\ calls[i].params[1] = JStr(UpstreamBlockHash)
        /\ k < Len(calls) => (k >= 1 /\ BlockFetched /\ UpstreamBlockHash # "")

\* C25: in a reward resolution every block fetch precedes every
\* execution-block fetch, the execution-block fetch asks for the hash found
\* in the answer to the block fetch, the status is settled from that answer
\* before the execution-block fetch and no request is sent for it, and a
\* resolution that meets no rate-limit answer sends at most two requests
C25_RewardCallOrder ==
    endpoint = "blockreward" =>
        /\ BlockFetchFirst
        /\ rateLimited = 0 => Len(calls) <= 2
        /\ Len(calls) <= rateLimited + 2
        /\ pc = "getExecutionBlockReward" =>
               /\ BlockFetched
               /\ isMev = isMEVBlock(beaconBlock)
               /\ rateLimited = 0 => calls = <<BlockRequest(slot)>>
        /\ (Responded /\ svc.path \in {"fallback", "normal"}) =>
               /\ svc.Status = StatusOf(isMev)
               /\ isMev = isMEVBlock(beaconBlock)
               /\ beaconBlock.BlockHash = UpstreamBlockHash

\* a resolution without a rate-limit answer sent its two requests, the second
\* for the hash of the block, and classified the block as "mev"
C25_Witness ==
    /\ RewardSucceeded
    /\ svc.path = "normal"
    /\ svc.Status = "mev"
    /\ rateLimited = 0
    /\ Len(calls) = 2
    /\ calls[1] = BlockRequest(slot)
    /\ calls[2] = ExecRequest(UpstreamBlockHash)

\* seed = (slot * 1000 + epoch * 2000) mod 1000000, in the integers
SeedOfSlot(slotArg) ==
    BigRemSmall(BigAdd(BigMul(slotArg, BigFromInt(1000)),
                       BigMul(Epoch(slotArg), BigFromInt(2000))), 1000000) % 1000000

\* the list of the stated size whose i-th entry is the table key at
\* (seed + i*i) mod table_size
IsListOfSeed(list, seed) ==
    /\ Len(list) = 8 + (seed % 16)
    /\ Len(list) \in 8..23
    /\ \A i \in 0..(Len(list) - 1) :
           list[i + 1] = validatorPubkeys[((seed + i * i) % Len(validatorPubkeys)) + 1]

\* C26: whenever the generated list is asked for, getActiveValidatorsForEpoch
\* returns the list of the seed (slot * 1000 + epoch * 2000) mod 1000000: its
\* size is 8 + (seed mod 16), between 8 and 23, its i-th entry is the table
\* key at (seed + i*i) mod table_size, and a second call for the same slot
\* and epoch returns the same list
C26_GeneratedList ==
    (Responded /\ SyntheticUsed) =>
        /\ svc.path = "synthetic"
        /\ IsListOfSeed(svc.validators, SeedOfSlot(slot))
        /\ ~getActiveValidatorsForEpoch(Epoch(slot), slot).panic
        /\ getActiveValidatorsForEpoch(Epoch(slot), slot).validators = svc.validators

\* the slot a request asks for
OwnSlot(r) == ParseInt(r.slotParam).v

OwnSlotIsFuture(r) == BigCmp(OwnSlot(r), CurrentSlot(now)) > 0

\* the answers a request took, by call site
OwnAnswer(r) ==
    [block |-> ResponseAt(BlockResponses, r.answer.block),
     exec |-> ResponseAt(ExecResponses, r.answer.exec),
     check |-> ResponseAt(CheckResponses, r.answer.check),
     syncing |-> ResponseAt(SyncingResponses, r.answer.syncing),
     committee |-> ResponseAt(CommitteeResponses, r.answer.committee),
     validators |-> ResponseAt(ValidatorsResponses, r.answer.validators)]

\* the requests GetSyncDutiesBySlot sends for a slot
ProbeRequests(slotArg) ==
    [check |-> [method |-> "eth_getBlockByNumber",
                params |-> <<JStr("0x" \o FormatInt(slotArg, 16)), JBool(FALSE)>>],
     syncing |-> [method |-> "eth_syncing", params |-> <<>>],
     committee |-> [method |-> "beacon_get_state_sync_committees",
                    params |-> <<JStr("0x" \o FormatInt(Epoch(slotArg), 16)),
                                 JStr("0x" \o FormatInt(SyncPeriod(slotArg), 16))>>],
     validators |-> [method |-> "beacon_get_validators",
                     params |-> <<JStr("0x" \o FormatInt(Epoch(slotArg), 16))>>]]

SameRequest(call, request) == call.method = request.method /\ call.params = request.params

\* every request a resolution sent is a request for its own slot, the
\* execution-block fetch one for the hash in its own block answer
SendsOwnRequests(r) ==
    \A i \in 1..Len(r.calls) :
        IF r.endpoint = "blockreward"
        THEN \/ SameRequest(r.calls[i], BlockRequest(OwnSlot(r)))
             \/ SameRequest(r.calls[i],
                    ExecRequest(DecodeBeaconBlock(OwnAnswer(r).block, OwnSlot(r)).block.BlockHash))
        ELSE \E site \in DOMAIN ProbeRequests(OwnSlot(r)) :
                 SameRequest(r.calls[i], ProbeRequests(OwnSlot(r))[site])

\* what GetSyncDutiesBySlot returns for a slot when the upstream gives these
\* answers and no rate-limit answer: the error of the first failed request or
\* the list of the first strategy that has one
ProbeOutcome(a, slotArg) ==
    IF a.check.kind = "fail"
    THEN ReturnError("check", Wrap(ErrRPCFailed.msg \o ": " \o a.check.text, ErrRPCFailed))
    ELSE IF a.check.kind = "readfail"
    THEN ReturnError("check", NewError("failed to read response body: " \o a.check.text))
    ELSE IF a.syncing.kind = "fail"
    THEN ReturnError("syncing", NewError("failed to make sync check request: " \o a.syncing.text))
    ELSE IF a.committee.kind = "fail"
    THEN ReturnError("committee", NewError("failed to make committee request: " \o a.committee.text))
    ELSE IF a.committee.kind = "readfail"
    THEN ReturnError("committee",
                     NewError("failed to read committee response body: " \o a.committee.text))
    ELSE IF a.validators.kind = "none"
    THEN ReturnValidators("committee", FirstValidators(DecodeCommittee(a.committee).validators))
    ELSE IF a.validators.kind = "fail"
    THEN ReturnError("validators",
                     NewError("failed to make validators request: " \o a.validators.text))
    ELSE IF a.validators.kind = "readfail"
    THEN ReturnError("validators",
                     NewError("failed to read validators response body: " \o a.validators.text))
    ELSE IF DecodeValidators(a.validators).ok /\ Len(DecodeValidators(a.validators).data) > 0
    THEN ReturnValidators("validators", FirstValidators(DecodeValidators(a.validators).data))
    ELSE ReturnValidators("synthetic",
                          getActiveValidatorsForEpoch(Epoch(slotArg), slotArg).validators)

\* a request that was answered after a call of the service and without a panic
Resolved(r) == r.pc = "responded" /\ r.svc.returned /\ ~OwnSlotIsFuture(r)

\* the result and the response of a request are the ones its own slot and its
\* own answers give
OwnResult(r) ==
    IF r.endpoint = "blockreward"
    THEN /\ r.svc = ResolutionOf(OwnAnswer(r).block, OwnAnswer(r).exec,
                                 DecodeBeaconBlock(OwnAnswer(r).block, OwnSlot(r)).block,
                                 OwnSlot(r))
         /\ r.http = GetBlockRewardRespond(r.svc)
    ELSE /\ r.svc = ProbeOutcome(OwnAnswer(r), OwnSlot(r))
         /\ r.http = GetSyncDutiesRespond(r.svc, OwnSlot(r))

Isolated(r) ==
    /\ r.pc \notin {"none", "main", "fatal", "start"} => r.slot = OwnSlot(r)
    /\ r.pc # "none" => SendsOwnRequests(r)
    /\ Resolved(r) => OwnResult(r)

\* C27: with two requests in flight, for the same slot or for different
\* ones, and their steps interleaved in any order, each resolution sends the
\* requests of its own slot and returns the result that its own slot and the
\* answers to its own requests give, the result of a run on its own; the one
\* thing both read, the service SetupEndpoints built, is never written
C27_Isolation ==
    /\ Isolated(Local)
    /\ Isolated(peer)
    /\ pc \notin {"main", "fatal"} => ethService = NewEthereumService(rpcURL).service

\* both resolutions are between their first request and their return, for
\* different slots, the other one after a rate-limit answer
C27_Witness ==
    /\ pc = "getExecutionBlockReward"
    /\ Len(calls) >= 1
    /\ peer.pc = "syncCommittee"
    /\ Len(peer.calls) >= 3
    /\ peer.rateLimited >= 1
    /\ peer.slotParam # slotParam

\* C28: for every successful block-reward resolution the response's reward
\* and block_info.proposer_payment both equal the GWEI reward of the resolver
\* exactly and are not negative, also for a reward beyond the signed 64-bit
\* range, and is_mev_boost is true exactly when the status is "mev".
C28_ResponseCarriesReward ==
    RewardSucceeded =>
        /\ http.code = 200
        /\ http.reward = svc.Reward
        /\ http.proposer_payment = svc.Reward
        /\ BigSign(http.reward) >= 0
        /\ BigSign(http.proposer_payment) >= 0
        /\ (http.is_mev_boost <=> svc.Status = "mev")

\* count := 8 + seed % 16 for the slot of the request
GeneratedCount == 8 + GoRem(SeedOf(Epoch(slot), slot), 16)

\* C29: for every slot the handler accepts, a negative one included, the
\* generator computes a count of at least 8 and only indexes within the
\* table of 24 keys: it does not panic and the list it returns is not empty.
C29_GeneratorInRange ==
    SyntheticUsed =>
        /\ GeneratedCount >= 8
        /\ \A i \in 0..(GeneratedCount - 1) :
               ValidatorIndex(SeedOf(Epoch(slot), slot), i) \in 0..(Len(validatorPubkeys) - 1)
        /\ svc.path # "panic"
        /\ Len(svc.validators) >= 1

====
